---- MODULE Spec2Model ----
(***************************************************************************)
(* A model of the reviewr core: the cycle-tolerant topological sorter      *)
(* (src/src/index.ts, topologicalSort), the schema-validated tool registry *)
(* (src/src/lib/toolHandler.ts) and the conversational tool-execution loop *)
(* (src/src/lib/llmClient.ts, LlmClient.runWithTools).                     *)
(*                                                                         *)
(* The specifications share the variables: SpecSort runs topologicalSort   *)
(* on every graph of a bounded family, one step of the depth-first walk    *)
(* per action; Spec runs runWithTools calls against an engine that answers *)
(* with any bounded sequence of content blocks; SpecDispatch runs          *)
(* handleToolCalls on bounded lists of calls, one call per action;         *)
(* SpecGraph runs processDiffChunks, SpecSlugs runs getDiffSlugs and       *)
(* SpecReorder runs orderChunksForTag, each making its runWithTools calls  *)
(* by the actions of Spec; SpecMerge applies mergeDiffChunks               *)
(* (src/src/tools/diffTool.ts) to every list of a bounded family of parsed *)
(* files and SpecRead runs readDiffFile on them; SpecStages puts           *)
(* readDiffFile, processDiffChunks and getDiffSlugs next to one another;   *)
(* SpecResolve applies reorderTool's execute to bounded groups and id      *)
(* sequences; SpecRuns interleaves requests and diffOrderingTool runs at   *)
(* the awaits of the engine.                                               *)
(***************************************************************************)
EXTENDS Integers, Sequences, FiniteSets, TLC

(***************************************************************************)
(* Bounds of the model.                                                    *)
(***************************************************************************)
\* most nodes of a graph handed to topologicalSort
MaxNodes == 3
\* longest dependency list of one graph.dependencies entry
MaxDeps == 2
\* most content blocks of one engine response
MaxBlocks == 2
\* most tool rounds the engine asks for in one runWithTools call
MaxRounds == 2
\* most runWithTools calls made on one client, one after the other
MaxCalls == 2
\* longest toolCalls list handed to handleToolCalls directly
MaxToolCalls == 2
\* longest tags list of one assign_chunk_metadata invocation
MaxTags == 2
\* most chunks of one tag group handed to orderChunksForTag
MaxGroup == 2

(***************************************************************************)
(* Generic helpers on sequences.                                           *)
(***************************************************************************)
Range(s) == {s[i] : i \in 1..Len(s)}

SeqsUpTo(S, n) == UNION {[1..k -> S] : k \in 0..n}

IsInjective(s) == \A i, j \in 1..Len(s) : s[i] = s[j] => i = j

Count(s, x) == Cardinality({i \in 1..Len(s) : s[i] = x})

RECURSIVE SumSeq(_)
SumSeq(s) == IF s = <<>> THEN 0 ELSE Head(s) + SumSeq(Tail(s))

(***************************************************************************)
(* DiffChunk ids.  mergeDiffChunks builds an id as filename + '-' + count, *)
(* so a node id always ends in a counter; ids that the engine reports as   *)
(* dependencies are arbitrary strings.                                     *)
(***************************************************************************)
AllNodeIds == <<"a.ts-1", "b.ts-1", "c.ts-1", "d.ts-1", "e.ts-1">>

\* an id that names no chunk and no property of a JavaScript object
StaleId == "stale-9"

\* an id that names no chunk but is an inherited property of every object
\* literal: ({})["constructor"] is the function Object, not undefined
ProtoId == "constructor"

ObjectPrototypeKeys == {ProtoId}

\* the ids a dependency list may hold: any node id, one further chunk-like
\* id, a stale id and an inherited property name
DepIds == Range(SubSeq(AllNodeIds, 1, MaxNodes)) \cup {StaleId, ProtoId}

VARIABLES
  \* ---- topologicalSort (src/src/index.ts:1439) ----
  graph,       \* the argument: [nodes, dependencies]
  tsPc,        \* "init" | "roots" | "done" | "raised"
  visited,     \* Set<string> of finished ids
  temp,        \* Set<string> of in-progress ids
  order,       \* DiffChunk[] built so far
  indegree,    \* Record<string, number> (ids without entry: undefined)
  rootsFirst,  \* nodeIds sorted by indegree
  rootIdx,     \* position of the for loop over rootsFirst
  stack,       \* the active visit() calls: <<[nodeId, deps, i]>>, top last
  warned,      \* ids passed to console.warn('Cycle detected ...')
  \* ---- ToolHandler and LlmClient (src/src/lib) ----
  tools,           \* ToolHandler.tools: the registered names, insertion order
  logDirectory,    \* LlmClient.logDirectory is set
  pc,              \* runWithTools: "idle" | "awaiting" | "done" | "failed"
  callNo,          \* runWithTools calls started so far
  additionalTools, \* the rest parameter of the current call
  messages,        \* the transcript of the current call
  requests,        \* the tools lists sent to the engine by the current call
  rounds,          \* per tool round of the current call: what was dispatched
  executed,        \* the execute() invocations of the current call
  finalResponse,   \* the response that ended the current call
  returned,        \* the value the current call resolved to
  logCalls,        \* the logConversation invocations of the current call
  toolsBefore,     \* the registry when the current call started
  scopedBefore,    \* the scoped tools passed to earlier calls
  \* ---- ToolHandler.handleToolCalls (src/src/lib/toolHandler.ts:30) ----
  hPc,         \* "off" | "loop" | "returned" | "raised"
  hCalls,      \* the argument toolCalls
  hThrew,      \* per call: whether execute, if it is run, rejects
  hIdx,        \* position of the for loop over toolCalls
  hResults,    \* the results array built so far
  hExecuted,   \* the execute() invocations made so far
  \* ---- getDiffSlugs and processDiffChunks (src/src/index.ts:1148, 1231) ----
  bFn,             \* "off" | "processDiffChunks" | "getDiffSlugs" |
                   \* "orderChunksForTag" | "mergeDiffChunks" |
                   \* "readDiffFile" | "reorderTool" | "runs"
  bPc,             \* "idle" | "loop" | "awaiting" | "returned" |
                   \* "writeFailed" | "raised"
  chunks,          \* the argument chunks
  chunkIdx,        \* position of the for loop over chunks
  depGraph,        \* processDiffChunks: graph
  processedNodes,  \* processDiffChunks: processedNodes
  chunkMetadata,   \* getDiffSlugs: chunkMetadata
  tags,            \* getDiffSlugs: tags
  outcomes,        \* per chunk handled so far: how its runWithTools call ended;
                   \* for readDiffFile, what the read rejected with
  invoked,         \* getDiffSlugs: the chunkIds the engine has named in a
                   \* tool_use block so far
  \* ---- orderChunksForTag (src/src/index.ts:1075) ----
  ordering,        \* the object { done, ordering } shared with reorderTool
  recursionLimit,  \* the local recursionLimit
  errorLogs,       \* the console.error calls made so far
  submitted,       \* what the engine has submitted in reorder tool_use
                   \* blocks so far: doneIn, the first round in which it
                   \* reported done (0: none), and last, the last non-final
                   \* id sequence
  \* ---- mergeDiffChunks (src/src/tools/diffTool.ts:40) ----
  files,           \* the argument files
  mergedChunks,    \* the returned array
  \* ---- readDiffFile (src/src/tools/diffTool.ts:18) ----
  thrown,          \* the message of the Error the call rejected with
  \* ---- reorderTool (src/src/index.ts:1376) ----
  reorderedChunks, \* the value execute resolved to
  \* ---- runs in flight at the same time ----
  runs             \* per run its position and, per owner, the transcripts,
                   \* registries and classifier states

sortVars == <<graph, tsPc, visited, temp, order, indegree, rootsFirst,
              rootIdx, stack, warned>>

loopVars == <<tools, logDirectory, pc, callNo, additionalTools, messages,
              requests, rounds, executed, finalResponse, returned, logCalls,
              toolsBefore, scopedBefore>>

dispatchVars == <<hPc, hCalls, hThrew, hIdx, hResults, hExecuted>>

builderVars == <<bFn, bPc, chunks, chunkIdx, depGraph, processedNodes,
                 chunkMetadata, tags, outcomes, invoked,
                 ordering, recursionLimit, errorLogs, submitted, files,
                 mergedChunks, thrown, reorderedChunks, runs>>

vars == <<sortVars, loopVars, dispatchVars, builderVars>>

(***************************************************************************)
(* DependencyGraph (src/src/index.ts:1054).  A DiffChunk is represented by *)
(* its id, the only field topologicalSort reads.                           *)
(***************************************************************************)
DiffChunk(id) == [id |-> id]

DepLists == SeqsUpTo(DepIds, MaxDeps)

\* what one key of graph.dependencies holds: no entry, or a list of ids
Entries ==
  {[has |-> FALSE, list |-> <<>>]} \cup {[has |-> TRUE, list |-> l] : l \in DepLists}

\* the graph of n nodes whose entries are e: distinct node ids in extraction
\* order, and dependencies restricted to the keys that have an entry
GraphOf(n, e) ==
  [nodes |-> [i \in 1..n |-> DiffChunk(AllNodeIds[i])],
   dependencies |-> [k \in {x \in DOMAIN e : e[x].has} |-> e[k].list]]

\* the keys that may have an entry in a graph of n nodes: every node id and,
\* below MaxNodes, one id that is not a node
GraphKeys(n) ==
  Range(SubSeq(AllNodeIds, 1, IF n < MaxNodes THEN n + 1 ELSE n))

\* graph.dependencies[nodeId] is iterable: an own entry is an array, an
\* absent entry is undefined and replaced by [], but an inherited property
\* of the object literal is a truthy value that for...of cannot iterate
DepsIterable(g, nodeId) ==
  nodeId \in DOMAIN g.dependencies \/ nodeId \notin ObjectPrototypeKeys

\* graph.dependencies[nodeId] || []
DepsOf(g, nodeId) ==
  IF nodeId \in DOMAIN g.dependencies THEN g.dependencies[nodeId] ELSE <<>>

NodeIds(g) == [i \in 1..Len(g.nodes) |-> g.nodes[i].id]

\* nodeMap.get(nodeId): the last node with that id, or none
NodeMapHas(g, nodeId) == \E i \in 1..Len(g.nodes) : g.nodes[i].id = nodeId

NodeMapGet(g, nodeId) ==
  LET I == {i \in 1..Len(g.nodes) : g.nodes[i].id = nodeId}
  IN  g.nodes[CHOOSE i \in I : \A j \in I : j <= i]

\* indegree after the two loops of lines 1483-1493, for the node ids (the
\* only keys the comparator reads)
Indegree(g) ==
  LET ids == NodeIds(g)
  IN  [id \in Range(ids) |->
         SumSeq([k \in 1..Len(ids) |->
                   Count(DepsOf(g, ids[k]), id)])]

\* [...nodeIds].sort((a, b) => indegree[a] - indegree[b]): Array.prototype
\* .sort is stable, so ties keep the extraction order
\* InsertSorted putting x before the elements of equal key
RECURSIVE InsertSortedTiesFirst(_, _, _)
InsertSortedTiesFirst(s, x, key) ==
  IF s = <<>> THEN <<x>>
  ELSE IF key[x] <= key[Head(s)] THEN <<x>> \o s
  ELSE <<Head(s)>> \o InsertSortedTiesFirst(Tail(s), x, key)

RECURSIVE InsertSorted(_, _, _)
InsertSorted(s, x, key) ==
  IF s = <<>> THEN <<x>>
  ELSE IF key[x] < key[Head(s)] THEN <<x>> \o s
  ELSE <<Head(s)>> \o InsertSorted(Tail(s), x, key)

RECURSIVE SortByKey(_, _)
SortByKey(s, key) ==
  IF s = <<>> THEN <<>>
  ELSE InsertSorted(SortByKey(SubSeq(s, 1, Len(s) - 1), key), s[Len(s)], key)

RootsFirst(g) == SortByKey(NodeIds(g), Indegree(g))

(***************************************************************************)
(* topologicalSort as a step machine: one action per call of visit(), per  *)
(* return of visit() and per iteration of the loop over rootsFirst.        *)
(***************************************************************************)
\* no runWithTools call is modelled while topologicalSort runs
LoopOff ==
  /\ tools = <<>>
  /\ logDirectory = FALSE
  /\ pc = "off"
  /\ callNo = 0
  /\ additionalTools = <<>>
  /\ messages = <<>>
  /\ requests = <<>>
  /\ rounds = <<>>
  /\ executed = <<>>
  /\ finalResponse = <<>>
  /\ returned = <<>>
  /\ logCalls = <<>>
  /\ toolsBefore = <<>>
  /\ scopedBefore = {}

\* no direct handleToolCalls call is modelled
DispatchOff ==
  /\ hPc = "off"
  /\ hCalls = <<>>
  /\ hThrew = <<>>
  /\ hIdx = 1
  /\ hResults = <<>>
  /\ hExecuted = <<>>

\* no call of getDiffSlugs or processDiffChunks is modelled
BuilderOff ==
  /\ bFn = "off"
  /\ bPc = "idle"
  /\ chunks = <<>>
  /\ chunkIdx = 1
  /\ depGraph = [nodes |-> <<>>, dependencies |-> <<>>]
  /\ processedNodes = <<>>
  /\ chunkMetadata = <<>>
  /\ tags = {}
  /\ outcomes = <<>>
  /\ invoked = {}
  /\ ordering = [done |-> FALSE, ordering |-> <<>>]
  /\ recursionLimit = 0
  /\ errorLogs = <<>>
  /\ submitted = [doneIn |-> 0, last |-> <<>>]
  /\ files = <<>>
  /\ mergedChunks = <<>>
  /\ thrown = <<>>
  /\ reorderedChunks = <<>>
  /\ runs = <<>>

SortInit ==
  /\ LoopOff
  /\ DispatchOff
  /\ BuilderOff
  /\ \E n \in 0..MaxNodes : \E e \in [GraphKeys(n) -> Entries] :
       graph = GraphOf(n, e)
  /\ tsPc = "init"
  /\ visited = {}
  /\ temp = {}
  /\ order = <<>>
  /\ indegree = <<>>
  /\ rootsFirst = <<>>
  /\ rootIdx = 1
  /\ stack = <<>>
  /\ warned = <<>>

\* lines 1440-1498: the sets, nodeIds, nodeMap, the indegree table and the
\* sorted candidate list.  The for...of of line 1490 throws a TypeError when
\* the looked-up value is not iterable.
TsStart ==
  /\ tsPc = "init"
  /\ IF \E k \in 1..Len(graph.nodes) :
          ~DepsIterable(graph, graph.nodes[k].id)
     THEN /\ tsPc' = "raised"
          /\ UNCHANGED <<indegree, rootsFirst>>
     ELSE /\ tsPc' = "roots"
          /\ indegree' = Indegree(graph)
          /\ rootsFirst' = RootsFirst(graph)
  /\ UNCHANGED <<graph, visited, temp, order, rootIdx, stack, warned,
                 loopVars, dispatchVars, builderVars>>

\* Visit without the 'already visited' test of line 1461
VisitIgnoringVisited(nodeId, stk) ==
  IF nodeId \in temp
  THEN /\ warned' = Append(warned, nodeId)
       /\ stack' = stk
       /\ UNCHANGED <<temp, tsPc>>
  ELSE /\ temp' = temp \cup {nodeId}
       /\ IF ~DepsIterable(graph, nodeId)
          THEN /\ tsPc' = "raised"
               /\ stack' = stk
          ELSE /\ stack' = Append(stk, [nodeId |-> nodeId,
                                        deps |-> DepsOf(graph, nodeId),
                                        i |-> 1])
               /\ UNCHANGED tsPc
       /\ UNCHANGED warned

\* Visit without the loop over the dependencies of lines 1468-1470
VisitWithoutDeps(nodeId, stk) ==
  IF nodeId \in temp
  THEN /\ warned' = Append(warned, nodeId)
       /\ stack' = stk
       /\ UNCHANGED <<temp, tsPc>>
  ELSE IF nodeId \in visited
  THEN /\ stack' = stk
       /\ UNCHANGED <<temp, warned, tsPc>>
  ELSE /\ temp' = temp \cup {nodeId}
       /\ stack' = Append(stk, [nodeId |-> nodeId, deps |-> <<>>, i |-> 1])
       /\ UNCHANGED <<warned, tsPc>>

\* one call visit(nodeId) made while the calls of stk are active, up to its
\* first nested call (lines 1453-1468)
Visit(nodeId, stk) ==
  IF nodeId \in temp
  THEN \* line 1455: a dependency in progress is a cycle: warn and return
       /\ warned' = Append(warned, nodeId)
       /\ stack' = stk
       /\ UNCHANGED <<temp, tsPc>>
  ELSE IF nodeId \in visited
  THEN \* line 1461
       /\ stack' = stk
       /\ UNCHANGED <<temp, warned, tsPc>>
  ELSE \* lines 1464-1468
       /\ temp' = temp \cup {nodeId}
       /\ IF ~DepsIterable(graph, nodeId)
          THEN /\ tsPc' = "raised"
               /\ stack' = stk
          ELSE /\ stack' = Append(stk, [nodeId |-> nodeId,
                                        deps |-> DepsOf(graph, nodeId),
                                        i |-> 1])
               /\ UNCHANGED tsPc
       /\ UNCHANGED warned

\* lines 1501-1505: the next candidate is visited unless already visited
TsLoop ==
  /\ tsPc = "roots"
  /\ stack = <<>>
  /\ rootIdx <= Len(rootsFirst)
  /\ rootIdx' = rootIdx + 1
  /\ IF rootsFirst[rootIdx] \notin visited
     THEN Visit(rootsFirst[rootIdx], stack)
     ELSE UNCHANGED <<temp, stack, warned, tsPc>>
  /\ UNCHANGED <<graph, visited, order, indegree, rootsFirst,
                 loopVars, dispatchVars, builderVars>>

\* lines 1468-1470: the active visit() calls visit(depId) for its next
\* dependency
TsVisitDep ==
  /\ tsPc = "roots"
  /\ stack # <<>>
  /\ LET top == stack[Len(stack)]
     IN  /\ top.i <= Len(top.deps)
         /\ Visit(top.deps[top.i],
                  [stack EXCEPT ![Len(stack)].i = top.i + 1])
  /\ UNCHANGED <<graph, visited, order, indegree, rootsFirst, rootIdx,
                 loopVars, dispatchVars, builderVars>>

\* TsVisitExit putting the finished node at the front of order
TsVisitExitUnshift ==
  /\ tsPc = "roots"
  /\ stack # <<>>
  /\ LET top == stack[Len(stack)]
     IN  /\ top.i > Len(top.deps)
         /\ temp' = temp \ {top.nodeId}
         /\ visited' = visited \cup {top.nodeId}
         /\ order' = IF NodeMapHas(graph, top.nodeId)
                     THEN <<NodeMapGet(graph, top.nodeId)>> \o order
                     ELSE order
         /\ stack' = SubSeq(stack, 1, Len(stack) - 1)
  /\ UNCHANGED <<graph, tsPc, indegree, rootsFirst, rootIdx, warned,
                 loopVars, dispatchVars, builderVars>>

\* lines 1473-1479: all dependencies are visited: the node is finished and
\* emitted when it is a node of the graph
TsVisitExit ==
  /\ tsPc = "roots"
  /\ stack # <<>>
  /\ LET top == stack[Len(stack)]
     IN  /\ top.i > Len(top.deps)
         /\ temp' = temp \ {top.nodeId}
         /\ visited' = visited \cup {top.nodeId}
         /\ order' = IF NodeMapHas(graph, top.nodeId)
                     THEN Append(order, NodeMapGet(graph, top.nodeId))
                     ELSE order
         /\ stack' = SubSeq(stack, 1, Len(stack) - 1)
  /\ UNCHANGED <<graph, tsPc, indegree, rootsFirst, rootIdx, warned,
                 loopVars, dispatchVars, builderVars>>

\* line 1508: return order
TsReturn ==
  /\ tsPc = "roots"
  /\ stack = <<>>
  /\ rootIdx > Len(rootsFirst)
  /\ tsPc' = "done"
  /\ UNCHANGED <<graph, visited, temp, order, indegree, rootsFirst, rootIdx,
                 stack, warned,
                 loopVars, dispatchVars, builderVars>>

SortNext == TsStart \/ TsLoop \/ TsVisitDep \/ TsVisitExit \/ TsReturn

SpecSort == SortInit /\ [][SortNext]_vars

\* the walk is sequential code: every enabled step is eventually taken
FairSpecSort == SpecSort /\ WF_vars(SortNext)

(***************************************************************************)
(* Properties of topologicalSort.                                          *)
(***************************************************************************)
OrderIds == [i \in 1..Len(order) |-> order[i].id]

IndexOf(s, x) == CHOOSE i \in 1..Len(s) : s[i] = x

\* the ids a graph mentions: its nodes, its keys and its dependency ids
GraphIds(g) ==
  Range(NodeIds(g)) \cup DOMAIN g.dependencies
    \cup UNION {Range(g.dependencies[k]) : k \in DOMAIN g.dependencies}

RECURSIVE ReachableFrom(_, _)
ReachableFrom(g, S) ==
  LET T == S \cup UNION {Range(DepsOf(g, x)) : x \in S}
  IN  IF T = S THEN S ELSE ReachableFrom(g, T)

\* b is reached from a along one or more dependency edges
Reaches(g, a, b) == b \in ReachableFrom(g, Range(DepsOf(g, a)))

Acyclic(g) == \A x \in GraphIds(g) : ~Reaches(g, x, x)

\* the recorded edges a -> b with both ends in nodes
NodeEdges(g) ==
  {e \in Range(NodeIds(g)) \X Range(NodeIds(g)) :
     e[2] \in Range(DepsOf(g, e[1]))}

\* C1: for a graph with pairwise distinct node ids (cycles and
\* self-dependencies included) the order returned by topologicalSort has the
\* length of nodes and holds each node id exactly once.
C1_SortIsPermutation ==
  (tsPc = "done" /\ IsInjective(NodeIds(graph))) =>
    /\ Len(order) = Len(graph.nodes)
    /\ \A i \in 1..Len(graph.nodes) : Count(OrderIds, graph.nodes[i].id) = 1
    /\ Range(order) = Range(graph.nodes)

\* a graph whose three nodes all lie on one cycle, one of them depending on
\* itself as well, has been sorted and the cycle was broken on the way
C1_Witness ==
  /\ tsPc = "done"
  /\ Len(graph.nodes) = 3
  /\ \A x, y \in Range(NodeIds(graph)) : Reaches(graph, x, y)
  /\ \E k \in DOMAIN graph.dependencies : k \in Range(graph.dependencies[k])
  /\ Len(warned) >= 2

\* C2: for an acyclic graph, every recorded edge a -> b between nodes has b
\* at a strictly smaller index than a in the returned order.
C2_DependenciesFirst ==
  (tsPc = "done" /\ Acyclic(graph)) =>
    \A e \in NodeEdges(graph) :
      /\ e[1] \in Range(OrderIds)
      /\ e[2] \in Range(OrderIds)
      /\ IndexOf(OrderIds, e[2]) < IndexOf(OrderIds, e[1])

\* an acyclic chain over three nodes, the dependent node extracted first,
\* has been sorted
C2_Witness ==
  /\ tsPc = "done"
  /\ Acyclic(graph)
  /\ Len(graph.nodes) = 3
  /\ <<graph.nodes[1].id, graph.nodes[2].id>> \in NodeEdges(graph)
  /\ <<graph.nodes[2].id, graph.nodes[3].id>> \in NodeEdges(graph)

\* C3: topologicalSort never raises, and a dependency that is in progress is
\* skipped, never re-entered: no id is active twice in the walk.  (That the
\* walk ends is C3_SortTerminates.)
C3_NeverRaises ==
  /\ tsPc # "raised"
  /\ IsInjective([i \in 1..Len(stack) |-> stack[i].nodeId])

\* the walk of every graph ends, by returning or by raising
C3_SortTerminates == <>(tsPc \in {"done", "raised"})

(***************************************************************************)
(* The tool registry (src/src/lib/toolHandler.ts).  A tool is represented  *)
(* by its name; its schema accepts ValidInput and rejects InvalidInput.    *)
(***************************************************************************)
\* fileTool, registered at start-up (src/src/index.ts:22)
RegisteredTool == "read_file"

\* the tool getDiffSlugs passes to runWithTools as a rest argument
ScopedTool == "assign_chunk_metadata"

ToolNames == {RegisteredTool, ScopedTool}

ValidInput == "valid"

InvalidInput == "invalid"

Inputs == {ValidInput, InvalidInput}

\* registerTool: this.tools[tool.name] = tool (a key that exists keeps its
\* place in the insertion order)
RegisterTool(reg, name) ==
  IF name \in Range(reg) THEN reg ELSE Append(reg, name)

\* getToolsSchema: one schema per registered tool, in insertion order
GetToolsSchema(reg) == reg

\* getToolSchema(tool), imported by llmClient.ts from toolHandler: the
\* schema of one tool, as getToolsSchema builds it for a registered one
GetToolSchema(tool) == tool

\* the content field of one handleToolCalls result
ResultContent(name) == [tool |-> name, error |-> ""]

ErrorContent(name, message) == [tool |-> name, error |-> message]

\* HandleToolCall running execute on the raw arguments, before the schema has
\* parsed them
HandleToolCallExecuteFirst(reg, toolCall, threw) ==
  IF toolCall.tool_name \notin Range(reg)
  THEN [result |-> [name |-> toolCall.tool_name,
                    content |-> ErrorContent(toolCall.tool_name, "not found")],
        executed |-> <<>>]
  ELSE [result |-> [name |-> toolCall.tool_name,
                    content |-> IF threw
                                THEN ErrorContent(toolCall.tool_name, "failed")
                                ELSE IF toolCall.parameters # ValidInput
                                THEN ErrorContent(toolCall.tool_name, "invalid")
                                ELSE ResultContent(toolCall.tool_name)],
        executed |-> <<toolCall>>]

\* one iteration of the loop of handleToolCalls (lines 33-57); threw tells
\* whether execute rejects.  this.tools[name] of a name that is not
\* registered is undefined (line 37 throws 'not found') unless the name is an
\* inherited property of the object literal: that value is truthy and has no
\* schema, so line 42 throws a TypeError.  Every throw is caught at line 51.
HandleToolCall(reg, toolCall, threw) ==
  IF toolCall.tool_name \notin Range(reg)
  THEN [result |-> [name |-> toolCall.tool_name,
                    content |-> ErrorContent(toolCall.tool_name,
                                  IF toolCall.tool_name \in ObjectPrototypeKeys
                                  THEN "no schema" ELSE "not found")],
        executed |-> <<>>]
  ELSE IF toolCall.parameters # ValidInput
  THEN [result |-> [name |-> toolCall.tool_name,
                    content |-> ErrorContent(toolCall.tool_name, "invalid")],
        executed |-> <<>>]
  ELSE [result |-> [name |-> toolCall.tool_name,
                    content |-> IF threw
                                THEN ErrorContent(toolCall.tool_name, "failed")
                                ELSE ResultContent(toolCall.tool_name)],
        executed |-> <<toolCall>>]

\* handleToolCalls(toolCalls): the results, one per call and in call order,
\* and the execute() invocations made; threw[k] is the outcome of call k
RECURSIVE HandleToolCalls(_, _, _)
HandleToolCalls(reg, toolCalls, threw) ==
  IF toolCalls = <<>> THEN [results |-> <<>>, executed |-> <<>>]
  ELSE LET one  == HandleToolCall(reg, Head(toolCalls), Head(threw))
           rest == HandleToolCalls(reg, Tail(toolCalls), Tail(threw))
       IN  [results |-> <<one.result>> \o rest.results,
            executed |-> one.executed \o rest.executed]

(***************************************************************************)
(* The engine's responses (the Anthropic messages API): a sequence of      *)
(* content blocks, text or tool_use.  The block at position p carries the  *)
(* text Texts[p], or the id ToolUseIds[p] or no id.  A response of the     *)
(* engine carries no _simulateConversation property (llmClient.ts:67-72 is *)
(* a hook for the mock of the unit test).                                  *)
(***************************************************************************)
Texts == <<"Test response", "second text", "third text", "fourth text">>

ToolUseIds == <<"toolu_1", "toolu_2", "toolu_3", "toolu_4">>

NoId == ""

TextBlock(t) == [type |-> "text", text |-> t]

ToolUseBlock(id, name, input) ==
  [type |-> "tool_use", id |-> id, name |-> name, input |-> input]

BlocksAt(p) ==
  {TextBlock(Texts[p])} \cup
  {ToolUseBlock(id, n, x) : id \in {NoId, ToolUseIds[p]}, n \in ToolNames,
                            x \in Inputs}

Responses ==
  UNION {{r \in [1..k -> UNION {BlocksAt(p) : p \in 1..k}] :
            \A p \in 1..k : r[p] \in BlocksAt(p)} : k \in 0..MaxBlocks}

ToolUseBlocks(response) == SelectSeq(response, LAMBDA b : b.type = "tool_use")

TextBlocks(response) == SelectSeq(response, LAMBDA b : b.type = "text")

ToolResultBlock(id, content) ==
  [type |-> "tool_result", tool_use_id |-> id, content |-> content]

(***************************************************************************)
(* LlmClient.runWithTools (src/src/lib/llmClient.ts:44-129).               *)
(***************************************************************************)
Prompt == <<TextBlock("prompt")>>

SystemPrompt == "You are a helpful assistant."

LogKey == "log-key"

NoTextResponse == "No text response"

ConversationCompleted == "Conversation completed"

\* the tools field of one messages.create request (lines 62-64)
OfferedTools(reg, additional) ==
  GetToolsSchema(reg) \o [i \in 1..Len(additional) |-> GetToolSchema(additional[i])]

\* lines 83-91: the calls handed to handleToolCalls for one response
ToolCallsOf(response) ==
  LET toolUseBlock == Head(ToolUseBlocks(response))
  IN  <<[tool_name |-> toolUseBlock.name, parameters |-> toolUseBlock.input]>>

\* lines 94-109: the turns pushed for one response that requests a tool
TurnsOf(response, toolResults) ==
  LET toolUseBlock == Head(ToolUseBlocks(response))
  IN  <<[role |-> "assistant", content |-> response]>> \o
      (IF toolUseBlock.id # NoId
       THEN <<[role |-> "user",
               content |-> <<ToolResultBlock(toolUseBlock.id,
                                             toolResults[1].content)>>]>>
       ELSE <<>>)

\* FinalAnswer taking the last text block instead of the first
FinalAnswerLastText(response) ==
  IF TextBlocks(response) # <<>>
  THEN TextBlocks(response)[Len(TextBlocks(response))].text
  ELSE NoTextResponse

\* lines 114-124: the value returned for a response without tool_use
FinalAnswer(response) ==
  IF TextBlocks(response) # <<>> THEN Head(TextBlocks(response)).text
  ELSE NoTextResponse

\* no topologicalSort call is modelled while the loop runs
SortOff ==
  /\ graph = GraphOf(0, <<>>)
  /\ tsPc = "off"
  /\ visited = {}
  /\ temp = {}
  /\ order = <<>>
  /\ indegree = <<>>
  /\ rootsFirst = <<>>
  /\ rootIdx = 1
  /\ stack = <<>>
  /\ warned = <<>>

\* a client on a registry that is empty (the one order_diff creates,
\* src/src/index.ts:1523) or holds the start-up tool, with or without a log
\* directory
Init ==
  /\ SortOff
  /\ DispatchOff
  /\ BuilderOff
  /\ tools \in {<<>>, RegisterTool(<<>>, RegisteredTool)}
  /\ logDirectory \in BOOLEAN
  /\ pc = "idle"
  /\ callNo = 0
  /\ additionalTools = <<>>
  /\ messages = <<>>
  /\ requests = <<>>
  /\ rounds = <<>>
  /\ executed = <<>>
  /\ finalResponse = <<>>
  /\ returned = <<>>
  /\ logCalls = <<>>
  /\ toolsBefore = <<>>
  /\ scopedBefore = {}

\* RunWithTools registering its scoped tools in the shared registry and
\* leaving them there
RunWithToolsRegistering(additional) ==
  /\ pc \in {"idle", "done", "failed"}
  /\ callNo < MaxCalls
  /\ callNo' = callNo + 1
  /\ additionalTools' = additional
  /\ scopedBefore' = scopedBefore \cup Range(additionalTools)
  /\ toolsBefore' = tools
  /\ tools' = IF additional = <<>> THEN tools
              ELSE RegisterTool(tools, additional[1])
  /\ messages' = <<[role |-> "user", content |-> Prompt]>>
  /\ requests' = <<GetToolsSchema(tools')>>
  /\ rounds' = <<>>
  /\ executed' = <<>>
  /\ finalResponse' = <<>>
  /\ returned' = <<>>
  /\ logCalls' = <<>>
  /\ pc' = "awaiting"
  /\ UNCHANGED <<logDirectory, sortVars, dispatchVars>>

\* runWithTools is called: lines 50-65, up to the first await
StartCall(additional) ==
  /\ pc \in {"idle", "done", "failed"}
  /\ callNo' = callNo + 1
  /\ additionalTools' = additional
  /\ scopedBefore' = scopedBefore \cup Range(additionalTools)
  /\ toolsBefore' = tools
  /\ messages' = <<[role |-> "user", content |-> Prompt]>>
  /\ requests' = <<OfferedTools(tools, additional)>>
  /\ rounds' = <<>>
  /\ executed' = <<>>
  /\ finalResponse' = <<>>
  /\ returned' = <<>>
  /\ logCalls' = <<>>
  /\ pc' = "awaiting"
  /\ UNCHANGED <<tools, logDirectory, sortVars, dispatchVars>>

\* a caller that makes at most MaxCalls calls on one client
RunWithTools(additional) ==
  /\ callNo < MaxCalls
  /\ StartCall(additional)

\* ToolRound handing the transcript to the logger after every tool round
ToolRoundLogging(response, threw) ==
  /\ pc = "awaiting"
  /\ ToolUseBlocks(response) # <<>>
  /\ Len(rounds) < MaxRounds
  /\ LET toolCalls == ToolCallsOf(response)
         handled   == HandleToolCalls(tools, toolCalls, <<threw>>)
         turns     == TurnsOf(response, handled.results)
     IN  /\ messages' = messages \o turns
         /\ executed' = executed \o handled.executed
         /\ rounds' = Append(rounds, [response |-> response,
                                      toolCalls |-> toolCalls,
                                      results |-> handled.results,
                                      turns |-> turns])
  /\ requests' = Append(requests, OfferedTools(tools, additionalTools))
  /\ logCalls' = IF logDirectory
                 THEN Append(logCalls, [messages |-> messages',
                                        systemPrompt |-> SystemPrompt,
                                        logKey |-> LogKey])
                 ELSE logCalls
  /\ UNCHANGED <<tools, logDirectory, pc, callNo, additionalTools,
                 finalResponse, returned, toolsBefore, scopedBefore,
                 sortVars, dispatchVars>>

\* ToolRound leaving the loop after one tool round (an iteration cap of 1)
ToolRoundCapped(response, threw) ==
  /\ pc = "awaiting"
  /\ ToolUseBlocks(response) # <<>>
  /\ Len(rounds) < MaxRounds
  /\ LET toolCalls == ToolCallsOf(response)
         handled   == HandleToolCalls(tools, toolCalls, <<threw>>)
         turns     == TurnsOf(response, handled.results)
     IN  /\ messages' = messages \o turns
         /\ executed' = executed \o handled.executed
         /\ rounds' = Append(rounds, [response |-> response,
                                      toolCalls |-> toolCalls,
                                      results |-> handled.results,
                                      turns |-> turns])
  /\ pc' = "done"
  /\ returned' = <<ConversationCompleted>>
  /\ UNCHANGED <<tools, logDirectory, callNo, additionalTools, requests,
                 finalResponse, logCalls, toolsBefore, scopedBefore,
                 sortVars, dispatchVars>>

\* messages.create resolves with a response that holds a tool_use block:
\* lines 75-109 and, the loop going round, the next request of lines 55-65
ToolRound(response, threw) ==
  /\ pc = "awaiting"
  /\ ToolUseBlocks(response) # <<>>
  /\ Len(rounds) < MaxRounds
  /\ LET toolCalls == ToolCallsOf(response)
         handled   == HandleToolCalls(tools, toolCalls, <<threw>>)
         turns     == TurnsOf(response, handled.results)
     IN  /\ messages' = messages \o turns
         /\ executed' = executed \o handled.executed
         /\ rounds' = Append(rounds, [response |-> response,
                                      toolCalls |-> toolCalls,
                                      results |-> handled.results,
                                      turns |-> turns])
  /\ requests' = Append(requests, OfferedTools(tools, additionalTools))
  /\ UNCHANGED <<tools, logDirectory, pc, callNo, additionalTools,
                 finalResponse, returned, logCalls, toolsBefore, scopedBefore,
                 sortVars, dispatchVars>>

\* messages.create resolves with a response without tool_use: lines 110-125
FinalResponse(response) ==
  /\ pc = "awaiting"
  /\ ToolUseBlocks(response) = <<>>
  /\ pc' = "done"
  /\ finalResponse' = <<response>>
  /\ returned' = <<FinalAnswer(response)>>
  /\ logCalls' = IF logDirectory
                 THEN Append(logCalls, [messages |-> messages,
                                        systemPrompt |-> SystemPrompt,
                                        logKey |-> LogKey])
                 ELSE logCalls
  /\ UNCHANGED <<tools, logDirectory, callNo, additionalTools, messages,
                 requests, rounds, executed, toolsBefore, scopedBefore,
                 sortVars, dispatchVars>>

\* EngineFails handing the partial transcript to the logger before the call
\* rejects
EngineFailsLogging ==
  /\ pc = "awaiting"
  /\ pc' = "failed"
  /\ logCalls' = Append(logCalls, [messages |-> messages,
                                   systemPrompt |-> SystemPrompt,
                                   logKey |-> LogKey])
  /\ UNCHANGED <<tools, logDirectory, callNo, additionalTools, messages,
                 requests, rounds, executed, finalResponse, returned,
                 toolsBefore, scopedBefore, sortVars, dispatchVars>>

\* messages.create rejects: runWithTools has no handler, the call rejects
EngineFails ==
  /\ pc = "awaiting"
  /\ pc' = "failed"
  /\ UNCHANGED <<tools, logDirectory, callNo, additionalTools, messages,
                 requests, rounds, executed, finalResponse, returned, logCalls,
                 toolsBefore, scopedBefore, sortVars, dispatchVars>>

Next ==
  \/ \E additional \in {<<>>, <<ScopedTool>>} :
       RunWithTools(additional) /\ UNCHANGED builderVars
  \/ \E response \in Responses : \E threw \in BOOLEAN :
       ToolRound(response, threw) /\ UNCHANGED builderVars
  \/ \E response \in Responses :
       FinalResponse(response) /\ UNCHANGED builderVars
  \/ EngineFails /\ UNCHANGED builderVars

Spec == Init /\ [][Next]_vars

(***************************************************************************)
(* Properties of the conversational loop.                                  *)
(***************************************************************************)
CallsOfBlocks(blocks) ==
  [k \in 1..Len(blocks) |->
     [tool_name |-> blocks[k].name, parameters |-> blocks[k].input]]

IdsOfBlocks(blocks) == [k \in 1..Len(blocks) |-> blocks[k].id]

ResultIds(content) == [k \in 1..Len(content) |-> content[k].tool_use_id]

\* C4: for every response with tool_use blocks, each block is dispatched to
\* the registry exactly once, and the user turn appended for the response
\* holds one tool_result per tool_use block, in block order, each carrying
\* the id of its block.
C4_EveryToolUseHandled ==
  \A n \in 1..Len(rounds) :
    LET blocks == ToolUseBlocks(rounds[n].response)
    IN  /\ rounds[n].toolCalls = CallsOfBlocks(blocks)
        /\ Len(rounds[n].results) = Len(blocks)
        /\ Len(rounds[n].turns) = 2
        /\ rounds[n].turns[2].role = "user"
        /\ ResultIds(rounds[n].turns[2].content) = IdsOfBlocks(blocks)

\* C5: when the engine invokes a tool that was passed to the current call as
\* a scoped tool, with arguments its schema accepts, its execute function
\* runs and the result is not a 'not found' error.
C5_ScopedToolExecutes ==
  \A n \in 1..Len(rounds) :
    LET call == rounds[n].toolCalls[1]
    IN  (call.tool_name \in Range(additionalTools) /\ call.parameters = ValidInput)
          => /\ rounds[n].results[1].content.error # "not found"
             /\ call \in Range(executed)

\* C6: every request of a call offers the scoped tools passed to it, no
\* request of a later call offers a scoped tool of an earlier call that was
\* not passed again, and the registry is the one the call started with, at
\* every point of the call and however it ended.
C6_ScopedToolsStayScoped ==
  /\ \A i \in 1..Len(requests) :
       /\ Range(additionalTools) \subseteq Range(requests[i])
       /\ \A t \in scopedBefore \ Range(additionalTools) :
            t \notin Range(requests[i])
       /\ requests[i] = toolsBefore \o additionalTools
  /\ pc \in {"awaiting", "done", "failed"} => tools = toolsBefore

\* a second call made without scoped tools, after a call that passed one,
\* has sent a request after each of its tool rounds and has returned
C6_Witness ==
  /\ callNo = 2
  /\ scopedBefore = {ScopedTool}
  /\ additionalTools = <<>>
  /\ Len(rounds) >= 1
  /\ Len(requests) = Len(rounds) + 1
  /\ rounds[1].toolCalls[1].tool_name = ScopedTool
  /\ pc = "done"

\* C7: while a call is awaiting the engine and when it is done, every
\* assistant turn of the transcript is followed at once by a user turn that
\* holds one tool_result for each tool_use block of the assistant turn.
C7_EveryEngineTurnAnswered ==
  pc \in {"awaiting", "done"} =>
    \A i \in 1..Len(messages) :
      messages[i].role = "assistant" =>
        /\ i < Len(messages)
        /\ messages[i + 1].role = "user"
        /\ ResultIds(messages[i + 1].content)
             = IdsOfBlocks(ToolUseBlocks(messages[i].content))

\* C8: the transcript starts with the user prompt and holds 1 + 2k turns
\* after k tool rounds; the final response adds none.
C8_TranscriptLength ==
  pc \in {"awaiting", "done"} =>
    /\ messages[1] = [role |-> "user", content |-> Prompt]
    /\ Len(messages) = 1 + 2 * Len(rounds)

\* the text blocks of a response, found by position
FirstTextOf(response) ==
  LET I == {i \in 1..Len(response) : response[i].type = "text"}
  IN  IF I = {} THEN NoTextResponse
      ELSE response[CHOOSE i \in I : \A j \in I : i <= j].text

\* C9: a call returns only on a response without tool_use block, and then
\* the text of that response's first text block, or 'No text response' when
\* it has none; it never returns 'Conversation completed'.
C9_ReturnsFirstText ==
  /\ pc = "done" =>
       /\ Len(finalResponse) = 1
       /\ \A i \in 1..Len(finalResponse[1]) :
            finalResponse[1][i].type # "tool_use"
       /\ returned = <<FirstTextOf(finalResponse[1])>>
  /\ pc # "done" => returned = <<>>
  /\ returned # <<ConversationCompleted>>

\* a call has returned the first of two text blocks after a tool round whose
\* response held a text block as well
C9_Witness ==
  /\ pc = "done"
  /\ Len(finalResponse[1]) = 2
  /\ returned = <<Texts[1]>>
  /\ Len(rounds) >= 1
  /\ rounds[1].response[1].type = "text"

\* C10: the loop is awaiting the engine or done; it is done exactly when a
\* response without tool_use block has arrived; while it is awaiting, one
\* request is outstanding after each tool round, however many there were,
\* and a response without tool_use block ends it.
C10_LoopStates ==
  /\ pc \in {"idle", "awaiting", "done", "failed"}
  /\ pc = "done" <=> finalResponse # <<>>
  /\ \A n \in 1..Len(rounds) : ToolUseBlocks(rounds[n].response) # <<>>
  /\ pc \in {"awaiting", "done"} => Len(requests) = Len(rounds) + 1
  /\ pc = "awaiting" => ENABLED (\E response \in Responses : FinalResponse(response))
  /\ (pc = "awaiting" /\ Len(rounds) < MaxRounds) =>
       ENABLED (\E response \in Responses : ToolRound(response, FALSE))

\* a call is still awaiting the engine after MaxRounds tool rounds
C10_Witness ==
  /\ pc = "awaiting"
  /\ Len(rounds) = MaxRounds
  /\ Len(requests) = MaxRounds + 1

\* the one logConversation invocation of a completed call (lines 118-120)
LogCallOf(transcript) ==
  [messages |-> transcript, systemPrompt |-> SystemPrompt, logKey |-> LogKey]

C12_FailureSurfaces ==
  pc = "failed" =>
    /\ Len(requests) = Len(rounds) + 1
    /\ ~ ENABLED (\E response \in Responses : \E threw \in BOOLEAN :
                    ToolRound(response, threw))
    /\ ~ ENABLED (\E response \in Responses : FinalResponse(response))
    /\ ~ ENABLED EngineFails
    /\ returned = <<>>
    /\ finalResponse = <<>>
    /\ logCalls = <<>>

\* the engine call after a tool round was rejected, the client having a log
\* directory and the transcript holding the turns of the round
C12_Witness ==
  /\ pc = "failed"
  /\ logDirectory
  /\ Len(rounds) >= 1
  /\ Len(messages) > 1

(***************************************************************************)
(* ToolHandler.handleToolCalls called with a list of calls, as the         *)
(* order-diff command does (src/src/index.ts:117): one step per iteration  *)
(* of its for loop.                                                        *)
(***************************************************************************)
\* the names a call may carry: a registered tool, a tool that is not
\* registered, and a name that is an inherited property of this.tools
DispatchToolNames == ToolNames \cup ObjectPrototypeKeys

DispatchCalls == [tool_name : DispatchToolNames, parameters : Inputs]

\* a handler on an empty registry or one that holds the start-up tool
DispatchInit ==
  /\ SortOff
  /\ DispatchOff
  /\ BuilderOff
  /\ tools \in {<<>>, RegisterTool(<<>>, RegisteredTool)}
  /\ logDirectory = FALSE
  /\ pc = "off"
  /\ callNo = 0
  /\ additionalTools = <<>>
  /\ messages = <<>>
  /\ requests = <<>>
  /\ rounds = <<>>
  /\ executed = <<>>
  /\ finalResponse = <<>>
  /\ returned = <<>>
  /\ logCalls = <<>>
  /\ toolsBefore = <<>>
  /\ scopedBefore = {}

\* handleToolCalls is called: line 31
HandleToolCallsStart(toolCalls, threw) ==
  /\ hPc = "off"
  /\ Len(threw) = Len(toolCalls)
  /\ hPc' = "loop"
  /\ hCalls' = toolCalls
  /\ hThrew' = threw
  /\ hIdx' = 1
  /\ hResults' = <<>>
  /\ hExecuted' = <<>>
  /\ UNCHANGED <<sortVars, loopVars, builderVars>>

\* HandleToolCallsStep without the catch of lines 51-56: a call that fails
\* makes handleToolCalls reject
HandleToolCallsStepRaising ==
  /\ hPc = "loop"
  /\ hIdx <= Len(hCalls)
  /\ LET one == HandleToolCall(tools, hCalls[hIdx], hThrew[hIdx])
     IN  IF one.result.content.error # ""
         THEN /\ hPc' = "raised"
              /\ UNCHANGED <<hResults, hExecuted, hIdx>>
         ELSE /\ hResults' = Append(hResults, one.result)
              /\ hExecuted' = hExecuted \o one.executed
              /\ hIdx' = hIdx + 1
              /\ UNCHANGED hPc
  /\ UNCHANGED <<hCalls, hThrew, sortVars, loopVars, builderVars>>

\* one iteration of the for loop: lines 33-57
HandleToolCallsStep ==
  /\ hPc = "loop"
  /\ hIdx <= Len(hCalls)
  /\ LET one == HandleToolCall(tools, hCalls[hIdx], hThrew[hIdx])
     IN  /\ hResults' = Append(hResults, one.result)
         /\ hExecuted' = hExecuted \o one.executed
  /\ hIdx' = hIdx + 1
  /\ UNCHANGED <<hPc, hCalls, hThrew, sortVars, loopVars, builderVars>>

\* the for loop is over: line 59
HandleToolCallsReturn ==
  /\ hPc = "loop"
  /\ hIdx > Len(hCalls)
  /\ hPc' = "returned"
  /\ UNCHANGED <<hCalls, hThrew, hIdx, hResults, hExecuted, sortVars,
                 loopVars, builderVars>>

DispatchNext ==
  \/ \E toolCalls \in SeqsUpTo(DispatchCalls, MaxToolCalls) :
       \E threw \in SeqsUpTo(BOOLEAN, MaxToolCalls) :
         HandleToolCallsStart(toolCalls, threw)
  \/ HandleToolCallsStep
  \/ HandleToolCallsReturn

SpecDispatch == DispatchInit /\ [][DispatchNext]_vars

(***************************************************************************)
(* Properties of the registry dispatch.                                    *)
(***************************************************************************)
\* call k of the list fails: its tool is not registered, its arguments
\* violate the schema, or its execute rejects
CallFails(k) ==
  \/ hCalls[k].tool_name \notin Range(tools)
  \/ hCalls[k].parameters # ValidInput
  \/ hThrew[k]

\* C13: handleToolCalls never rejects; after k iterations it holds k
\* results, result i named after call i; a call that fails has an error
\* payload, any other call the result of its execute; the loop goes on after
\* a failed call and the call returns one result per call.
C13_DispatchNeverRaises ==
  /\ hPc \in {"off", "loop", "returned"}
  /\ Len(hResults) = hIdx - 1
  /\ \A k \in 1..Len(hResults) :
       /\ hResults[k].name = hCalls[k].tool_name
       /\ CallFails(k) => hResults[k].content.error # ""
       /\ ~CallFails(k) =>
            hResults[k].content = ResultContent(hCalls[k].tool_name)
  /\ (hPc = "loop" /\ hIdx <= Len(hCalls)) => ENABLED HandleToolCallsStep
  /\ hPc = "returned" =>
       /\ Len(hResults) = Len(hCalls)
       /\ hResults = HandleToolCalls(tools, hCalls, hThrew).results

\* a list of MaxToolCalls calls has returned: the first call named a tool that
\* is not registered, the last one ran its execute and has its result
C13_Witness ==
  /\ hPc = "returned"
  /\ Len(hCalls) = MaxToolCalls
  /\ hResults[1].content.error = "not found"
  /\ hResults[Len(hCalls)].content.error = ""

\* C14: every execute() invocation was made for a call of a registered tool
\* whose arguments pass the schema; the invocations are exactly these calls
\* of the list handled so far, in call order, so a call whose arguments
\* violate the schema has run no execute.
C14_ExecuteOnlyValidated ==
  /\ \A i \in 1..Len(hExecuted) :
       /\ hExecuted[i].parameters = ValidInput
       /\ hExecuted[i].tool_name \in Range(tools)
  /\ hExecuted = SelectSeq(SubSeq(hCalls, 1, hIdx - 1),
                           LAMBDA c : /\ c.tool_name \in Range(tools)
                                      /\ c.parameters = ValidInput)

\* a list has returned in which a registered tool was called with arguments
\* that violate its schema and then with arguments that pass it: only the
\* second call ran execute
C14_Witness ==
  /\ hPc = "returned"
  /\ hCalls = <<[tool_name |-> RegisteredTool, parameters |-> InvalidInput],
                [tool_name |-> RegisteredTool, parameters |-> ValidInput]>>
  /\ hResults[1].content.error = "invalid"
  /\ hExecuted = <<hCalls[2]>>

(***************************************************************************)
(* The dependency-graph builder: processDiffChunks and the tool it hands   *)
(* to runWithTools (src/src/index.ts:1231-1354).  A chunk is represented   *)
(* by its id; the prompt, the system prompt and the log key of a call are  *)
(* those of the loop above.  Each chunk makes one runWithTools call, so a  *)
(* chunk list holds at most MaxCalls chunks.                               *)
(***************************************************************************)
ReportTool == "report_dependencies"

\* obj[key] = value on an object literal
SetEntry(obj, key, value) ==
  [k \in DOMAIN obj \cup {key} |-> IF k = key THEN value ELSE obj[k]]

\* reportDependenciesTool(graph).execute(params): line 1351
ReportDependenciesExecute(g, params) ==
  [g EXCEPT !.dependencies = SetEntry(@, params.chunkId, params.dependencies)]

\* the graph after the execute() invocations ran of one handleToolCalls call
RECURSIVE GraphAfter(_, _)
GraphAfter(g, ran) ==
  IF ran = <<>> THEN g
  ELSE GraphAfter(IF Head(ran).tool_name = ReportTool
                  THEN ReportDependenciesExecute(g, Head(ran).parameters)
                  ELSE g,
                  Tail(ran))

\* the chunks readDiffFile extracts: distinct ids, in extraction order
ChunksOf(n) == [i \in 1..n |-> DiffChunk(AllNodeIds[i])]

IdsOf(cs) == {cs[i].id : i \in 1..Len(cs)}

\* arguments that pass reportDependenciesSchema (lines 1333-1340): any
\* string as chunkId, any list of strings as dependencies
ReportParams(cs) ==
  [chunkId : IdsOf(cs) \cup {StaleId},
   dependencies : SeqsUpTo(IdsOf(cs) \cup {StaleId}, MaxDeps)]

\* what the engine answers to a request that offers one scoped tool: no
\* block, a text block, or a tool_use block for that tool
BuilderResponses(tool, params) ==
  {<<>>, <<TextBlock(Texts[1])>>} \cup
  {<<ToolUseBlock(ToolUseIds[1], tool, x)>> : x \in params}

\* the client handed to the builder: an empty registry or one that holds
\* the start-up tool, no log directory, no call made yet
BuilderClient ==
  /\ tools \in {<<>>, RegisterTool(<<>>, RegisteredTool)}
  /\ logDirectory = FALSE
  /\ pc = "idle"
  /\ callNo = 0
  /\ additionalTools = <<>>
  /\ messages = <<>>
  /\ requests = <<>>
  /\ rounds = <<>>
  /\ executed = <<>>
  /\ finalResponse = <<>>
  /\ returned = <<>>
  /\ logCalls = <<>>
  /\ toolsBefore = <<>>
  /\ scopedBefore = {}

BuilderIdle(fn) ==
  /\ bFn = fn
  /\ bPc = "idle"
  /\ chunks = <<>>
  /\ chunkIdx = 1
  /\ depGraph = [nodes |-> <<>>, dependencies |-> <<>>]
  /\ processedNodes = <<>>
  /\ chunkMetadata = <<>>
  /\ tags = {}
  /\ outcomes = <<>>
  /\ invoked = {}
  /\ ordering = [done |-> FALSE, ordering |-> <<>>]
  /\ recursionLimit = 0
  /\ errorLogs = <<>>
  /\ submitted = [doneIn |-> 0, last |-> <<>>]
  /\ files = <<>>
  /\ mergedChunks = <<>>
  /\ thrown = <<>>
  /\ reorderedChunks = <<>>
  /\ runs = <<>>

GraphInit ==
  /\ SortOff
  /\ DispatchOff
  /\ BuilderClient
  /\ BuilderIdle("processDiffChunks")

\* what the heuristic of lines 1252-1264 reads of the chunks' content
Features(n) ==
  [implements : [1..n -> BOOLEAN], interface : [1..n -> BOOLEAN],
   import : [1..n -> BOOLEAN],
   mentions : SUBSET {p \in (1..n) \X (1..n) : p[1] # p[2]}]

\* lines 1246-1266: the list built for chunk i
HeuristicDeps(cs, f, i) ==
  LET js == SelectSeq([j \in 1..Len(cs) |-> j],
                      LAMBDA j : /\ cs[i].id # cs[j].id
                                 /\ \/ f.implements[i] /\ f.interface[j]
                                    \/ f.import[i] /\ <<i, j>> \in f.mentions)
  IN  [k \in 1..Len(js) |-> cs[js[k]].id]

\* processDiffChunks(chunks) without a client: lines 1235-1273
ProcessDiffChunksHeuristic(n, f) ==
  /\ bFn = "processDiffChunks"
  /\ bPc = "idle"
  /\ chunks' = ChunksOf(n)
  /\ depGraph' = [nodes |-> chunks',
                  dependencies |-> [id \in IdsOf(chunks') |->
                     HeuristicDeps(chunks', f,
                       CHOOSE i \in 1..n : chunks'[i].id = id)]]
  /\ bPc' = "returned"
  /\ UNCHANGED <<ordering, recursionLimit, errorLogs, submitted, files,
                 mergedChunks, thrown, reorderedChunks, runs, bFn, chunkIdx, processedNodes, chunkMetadata, invoked, tags,
                 outcomes, sortVars, loopVars, dispatchVars>>

\* processDiffChunks(chunks, llmClient): lines 1235-1237 and 1275-1282
ProcessDiffChunks(n) ==
  /\ bFn = "processDiffChunks"
  /\ bPc = "idle"
  /\ chunks' = ChunksOf(n)
  /\ depGraph' = [nodes |-> chunks', dependencies |-> <<>>]
  /\ bPc' = IF n = 0 THEN "returned" ELSE "loop"
  /\ UNCHANGED <<ordering, recursionLimit, errorLogs, submitted, files,
                 mergedChunks, thrown, reorderedChunks, runs, bFn, chunkIdx, processedNodes, chunkMetadata, invoked, tags,
                 outcomes, sortVars, loopVars, dispatchVars>>

\* the next chunk is taken and runWithTools is called for it: lines 1284-1316
PdCallEngine ==
  /\ bFn = "processDiffChunks"
  /\ bPc = "loop"
  /\ chunkIdx <= Len(chunks)
  /\ RunWithTools(<<ReportTool>>)
  /\ bPc' = "awaiting"
  /\ UNCHANGED <<ordering, recursionLimit, errorLogs, submitted, files,
                 mergedChunks, thrown, reorderedChunks, runs, bFn, chunks, chunkIdx, depGraph, processedNodes,
                 chunkMetadata, invoked, tags, outcomes>>

\* PdToolRound running the execute of the dispatched call whatever the
\* registry answered
PdToolRoundExecuting(response, threw) ==
  /\ bFn = "processDiffChunks"
  /\ bPc = "awaiting"
  /\ ToolRound(response, threw)
  /\ depGraph' = GraphAfter(depGraph, ToolCallsOf(response))
  /\ UNCHANGED <<ordering, recursionLimit, errorLogs, submitted, files,
                 mergedChunks, thrown, reorderedChunks, runs, bFn, bPc, chunks, chunkIdx, processedNodes, chunkMetadata,
                 invoked, tags, outcomes>>

\* a tool round of the call in flight; the graph changes by the execute()
\* invocations the registry made in it
PdToolRound(response, threw) ==
  /\ bFn = "processDiffChunks"
  /\ bPc = "awaiting"
  /\ ToolRound(response, threw)
  /\ depGraph' = GraphAfter(depGraph, SubSeq(executed', Len(executed) + 1,
                                             Len(executed')))
  /\ UNCHANGED <<ordering, recursionLimit, errorLogs, submitted, files,
                 mergedChunks, thrown, reorderedChunks, runs, bFn, bPc, chunks, chunkIdx, processedNodes, chunkMetadata,
                 invoked, tags, outcomes>>

\* the call in flight resolves: line 1319
PdResolved(response) ==
  /\ bFn = "processDiffChunks"
  /\ bPc = "awaiting"
  /\ FinalResponse(response)
  /\ processedNodes' = Append(processedNodes, chunks[chunkIdx])
  /\ outcomes' = Append(outcomes, "resolved")
  /\ chunkIdx' = chunkIdx + 1
  /\ bPc' = "loop"
  /\ UNCHANGED <<ordering, recursionLimit, errorLogs, submitted, files,
                 mergedChunks, thrown, reorderedChunks, runs, bFn, chunks, depGraph, chunkMetadata, invoked, tags>>

\* PdRejected without the catch of lines 1320-1324
PdRejectedPropagating ==
  /\ bFn = "processDiffChunks"
  /\ bPc = "awaiting"
  /\ EngineFails
  /\ outcomes' = Append(outcomes, "rejected")
  /\ bPc' = "raised"
  /\ UNCHANGED <<ordering, recursionLimit, errorLogs, submitted, files,
                 mergedChunks, thrown, reorderedChunks, runs, bFn, chunks, chunkIdx, depGraph, processedNodes,
                 chunkMetadata, invoked, tags>>

\* the call in flight rejects: the catch of lines 1320-1324
PdRejected ==
  /\ bFn = "processDiffChunks"
  /\ bPc = "awaiting"
  /\ EngineFails
  /\ depGraph' = [depGraph EXCEPT
                    !.dependencies = SetEntry(@, chunks[chunkIdx].id, <<>>)]
  /\ outcomes' = Append(outcomes, "rejected")
  /\ chunkIdx' = chunkIdx + 1
  /\ bPc' = "loop"
  /\ UNCHANGED <<ordering, recursionLimit, errorLogs, submitted, files,
                 mergedChunks, thrown, reorderedChunks, runs, bFn, chunks, processedNodes, chunkMetadata, invoked, tags>>

\* the for loop is over: graph.json is written, or the write rejects, and
\* the graph is returned (lines 1326-1329)
PdWriteGraph(written) ==
  /\ bFn = "processDiffChunks"
  /\ bPc = "loop"
  /\ chunkIdx > Len(chunks)
  /\ bPc' = IF written THEN "returned" ELSE "writeFailed"
  /\ UNCHANGED <<ordering, recursionLimit, errorLogs, submitted, files,
                 mergedChunks, thrown, reorderedChunks, runs, bFn, chunks, chunkIdx, depGraph, processedNodes,
                 chunkMetadata, invoked, tags, outcomes, sortVars, loopVars,
                 dispatchVars>>

GraphNext ==
  \/ \E n \in 1..MaxCalls : \E f \in Features(n) :
       ProcessDiffChunksHeuristic(n, f)
  \/ \E n \in 0..MaxCalls : ProcessDiffChunks(n)
  \/ PdCallEngine
  \/ \E response \in BuilderResponses(ReportTool, ReportParams(chunks)) :
       \E threw \in BOOLEAN : PdToolRound(response, threw)
  \/ \E response \in BuilderResponses(ReportTool, ReportParams(chunks)) :
       PdResolved(response)
  \/ PdRejected
  \/ \E written \in BOOLEAN : PdWriteGraph(written)

SpecGraph == GraphInit /\ [][GraphNext]_vars

(***************************************************************************)
(* Properties of the dependency-graph builder.                             *)
(***************************************************************************)
\* C15: when processDiffChunks has returned the graph it built with an
\* engine, graph.dependencies has an entry for every id of graph.nodes and
\* for no other id.
C15_OneEntryPerChunk ==
  (bFn = "processDiffChunks" /\ bPc = "returned" /\ outcomes # <<>>) =>
    DOMAIN depGraph.dependencies = IdsOf(depGraph.nodes)

\* C16: every dependency list of the graph, while it is built and when it is
\* returned, holds only ids of graph.nodes and never the id it is the entry
\* of.
C16_DependenciesWithinNodes ==
  \A k \in DOMAIN depGraph.dependencies :
    \A d \in Range(depGraph.dependencies[k]) :
      d \in IdsOf(depGraph.nodes) /\ d # k

\* the graph was returned after a call in which the engine reported, for the
\* chunk of the call, a list that names the chunk itself and an id that is
\* no node
C16_Witness ==
  /\ bFn = "processDiffChunks"
  /\ bPc = "returned"
  /\ Len(chunks) = MaxCalls
  /\ \E n \in 1..Len(rounds) :
       rounds[n].toolCalls[1] =
         [tool_name |-> ReportTool,
          parameters |-> [chunkId |-> chunks[Len(chunks)].id,
                          dependencies |-> <<chunks[Len(chunks)].id, StaleId>>]]

\* C17: processDiffChunks never rejects because a chunk's call rejected;
\* every chunk whose call rejected has the entry [], and the loop has gone
\* on: one outcome per chunk handled, the next chunk's call enabled, and all
\* chunks handled when the graph is returned.
C17_FailedChunkGetsEmptyList ==
  bFn = "processDiffChunks" =>
    /\ bPc # "raised"
    /\ Len(outcomes) = chunkIdx - 1
    /\ \A i \in 1..Len(outcomes) :
         outcomes[i] = "rejected" =>
           /\ chunks[i].id \in DOMAIN depGraph.dependencies
           /\ depGraph.dependencies[chunks[i].id] = <<>>
    /\ (bPc = "loop" /\ chunkIdx <= Len(chunks)) => ENABLED PdCallEngine
    /\ (bPc = "returned" /\ outcomes # <<>>) => Len(outcomes) = Len(chunks)

\* the graph was returned after the call of the first chunk rejected and the
\* call of the next chunk resolved
C17_Witness ==
  /\ bFn = "processDiffChunks"
  /\ bPc = "returned"
  /\ Len(outcomes) >= 2
  /\ outcomes[1] = "rejected"
  /\ outcomes[2] = "resolved"
  /\ depGraph.dependencies[chunks[1].id] = <<>>

(***************************************************************************)
(* The tag and priority classifier: getDiffSlugs, the tool it hands to     *)
(* runWithTools and the tag groups diffOrderingTool builds of its result   *)
(* (src/src/index.ts:1148-1229, 1398-1436, 1532-1543).                     *)
(***************************************************************************)
\* two of the example tags of the system prompt (lines 1188-1189)
TagNames == {"telemetry", "error handling"}

Priorities == {"high", "low", "unknown"}

\* arguments that pass assignChunkMetadataSchema (lines 1398-1410)
AssignParams(cs) ==
  [chunkId : IdsOf(cs) \cup {StaleId}, tags : SeqsUpTo(TagNames, MaxTags),
   priority : Priorities]

\* assignChunkMetadataTool(meta, tags, diffs).execute(params): lines
\* 1422-1434, on st = [meta, tags]
AssignChunkMetadataExecute(st, diffs, params) ==
  LET found == {i \in 1..Len(diffs) : diffs[i].id = params.chunkId}
      diffChunk == diffs[CHOOSE i \in found : \A j \in found : i <= j]
  IN  [meta |-> IF found # {}
                THEN Append(st.meta, [id |-> diffChunk.id,
                                      tags |-> params.tags,
                                      priority |-> params.priority])
                ELSE st.meta,
       tags |-> st.tags \cup Range(params.tags)]

\* chunkMetadata and tags after the execute() invocations ran of one
\* handleToolCalls call
RECURSIVE MetaAfter(_, _, _)
MetaAfter(st, diffs, ran) ==
  IF ran = <<>> THEN st
  ELSE MetaAfter(IF Head(ran).tool_name = ScopedTool
                 THEN AssignChunkMetadataExecute(st, diffs,
                                                 Head(ran).parameters)
                 ELSE st,
                 diffs, Tail(ran))

\* diffOrderingTool, lines 1536-1543: the diffs pushed to the group of a tag
RECURSIVE TagGroup(_, _)
TagGroup(diffs, tag) ==
  IF diffs = <<>> THEN <<>>
  ELSE [k \in 1..Count(Head(diffs).tags, tag) |-> Head(diffs)]
         \o TagGroup(Tail(diffs), tag)

\* diffOrderingTool, lines 1532-1543: tagToDiffsMap
TagToDiffsMap(diffs) ==
  [t \in UNION {Range(diffs[i].tags) : i \in 1..Len(diffs)} |->
     TagGroup(diffs, t)]

SlugsInit ==
  /\ SortOff
  /\ DispatchOff
  /\ BuilderClient
  /\ BuilderIdle("getDiffSlugs")

\* getDiffSlugs(chunks, llmClient): lines 1152-1161
\* GetDiffSlugs without the early return of lines 1152-1154
GetDiffSlugsNoEarlyReturn(n) ==
  /\ bFn = "getDiffSlugs"
  /\ bPc = "idle"
  /\ chunks' = ChunksOf(n)
  /\ bPc' = "loop"
  /\ UNCHANGED <<ordering, recursionLimit, errorLogs, submitted, files,
                 mergedChunks, thrown, reorderedChunks, runs, bFn, chunkIdx,
                 depGraph, processedNodes, chunkMetadata, tags, outcomes,
                 invoked, sortVars, loopVars, dispatchVars>>

GetDiffSlugs(n) ==
  /\ bFn = "getDiffSlugs"
  /\ bPc = "idle"
  /\ chunks' = ChunksOf(n)
  /\ bPc' = IF n = 0 THEN "returned" ELSE "loop"
  /\ UNCHANGED <<ordering, recursionLimit, errorLogs, submitted, files,
                 mergedChunks, thrown, reorderedChunks, runs, bFn, chunkIdx, depGraph, processedNodes, chunkMetadata, tags,
                 outcomes, invoked, sortVars, loopVars, dispatchVars>>

\* the next chunk is taken and runWithTools is called for it: lines 1198-1217
GsCallEngine ==
  /\ bFn = "getDiffSlugs"
  /\ bPc = "loop"
  /\ chunkIdx <= Len(chunks)
  /\ RunWithTools(<<ScopedTool>>)
  /\ bPc' = "awaiting"
  /\ UNCHANGED <<ordering, recursionLimit, errorLogs, submitted, files,
                 mergedChunks, thrown, reorderedChunks, runs, bFn, chunks, chunkIdx, depGraph, processedNodes,
                 chunkMetadata, tags, outcomes, invoked>>

\* GsToolRound running the execute of the dispatched call whatever the
\* registry answered
GsToolRoundExecuting(response, threw) ==
  /\ bFn = "getDiffSlugs"
  /\ bPc = "awaiting"
  /\ ToolRound(response, threw)
  /\ LET st == MetaAfter([meta |-> chunkMetadata, tags |-> tags], chunks,
                         ToolCallsOf(response))
     IN  /\ chunkMetadata' = st.meta
         /\ tags' = st.tags
  /\ invoked' = invoked \cup {ToolCallsOf(response)[1].parameters.chunkId}
  /\ UNCHANGED <<ordering, recursionLimit, errorLogs, submitted, files,
                 mergedChunks, thrown, reorderedChunks, runs, bFn, bPc, chunks, chunkIdx, depGraph, processedNodes,
                 outcomes>>

\* a tool round of the call in flight; chunkMetadata and tags change by the
\* execute() invocations the registry made in it
GsToolRound(response, threw) ==
  /\ bFn = "getDiffSlugs"
  /\ bPc = "awaiting"
  /\ ToolRound(response, threw)
  /\ LET st == MetaAfter([meta |-> chunkMetadata, tags |-> tags], chunks,
                         SubSeq(executed', Len(executed) + 1, Len(executed')))
     IN  /\ chunkMetadata' = st.meta
         /\ tags' = st.tags
  /\ invoked' = invoked \cup {ToolCallsOf(response)[1].parameters.chunkId}
  /\ UNCHANGED <<ordering, recursionLimit, errorLogs, submitted, files,
                 mergedChunks, thrown, reorderedChunks, runs, bFn, bPc, chunks, chunkIdx, depGraph, processedNodes,
                 outcomes>>

\* GsResolved recording a chunk that has no record yet as untagged
GsResolvedDefaulting(response) ==
  /\ bFn = "getDiffSlugs"
  /\ bPc = "awaiting"
  /\ FinalResponse(response)
  /\ chunkMetadata' =
       IF \E i \in 1..Len(chunkMetadata) :
            chunkMetadata[i].id = chunks[chunkIdx].id
       THEN chunkMetadata
       ELSE Append(chunkMetadata, [id |-> chunks[chunkIdx].id, tags |-> <<>>,
                                   priority |-> "unknown"])
  /\ outcomes' = Append(outcomes, "resolved")
  /\ chunkIdx' = chunkIdx + 1
  /\ bPc' = "loop"
  /\ UNCHANGED <<ordering, recursionLimit, errorLogs, submitted, files,
                 mergedChunks, thrown, reorderedChunks, runs, bFn, chunks, depGraph, processedNodes, tags, invoked>>

\* the call in flight resolves: line 1217, the value is dropped
GsResolved(response) ==
  /\ bFn = "getDiffSlugs"
  /\ bPc = "awaiting"
  /\ FinalResponse(response)
  /\ outcomes' = Append(outcomes, "resolved")
  /\ chunkIdx' = chunkIdx + 1
  /\ bPc' = "loop"
  /\ UNCHANGED <<ordering, recursionLimit, errorLogs, submitted, files,
                 mergedChunks, thrown, reorderedChunks, runs, bFn, chunks, depGraph, processedNodes, chunkMetadata, tags,
                 invoked>>

\* the call in flight rejects: the await of line 1212 stands in no try
\* block, getDiffSlugs rejects
GsRejected ==
  /\ bFn = "getDiffSlugs"
  /\ bPc = "awaiting"
  /\ EngineFails
  /\ outcomes' = Append(outcomes, "rejected")
  /\ bPc' = "raised"
  /\ UNCHANGED <<ordering, recursionLimit, errorLogs, submitted, files,
                 mergedChunks, thrown, reorderedChunks, runs, bFn, chunks, chunkIdx, depGraph, processedNodes,
                 chunkMetadata, tags, invoked>>

\* the for loop is over: meta.json is written, or the write rejects, and
\* chunkMetadata is returned (lines 1222-1228)
GsWriteMeta(written) ==
  /\ bFn = "getDiffSlugs"
  /\ bPc = "loop"
  /\ chunkIdx > Len(chunks)
  /\ bPc' = IF written THEN "returned" ELSE "writeFailed"
  /\ UNCHANGED <<ordering, recursionLimit, errorLogs, submitted, files,
                 mergedChunks, thrown, reorderedChunks, runs, bFn, chunks, chunkIdx, depGraph, processedNodes,
                 chunkMetadata, tags, outcomes, invoked, sortVars, loopVars,
                 dispatchVars>>

SlugsNext ==
  \/ \E n \in 0..MaxCalls : GetDiffSlugs(n)
  \/ GsCallEngine
  \/ \E response \in BuilderResponses(ScopedTool, AssignParams(chunks)) :
       \E threw \in BOOLEAN : GsToolRound(response, threw)
  \/ \E response \in BuilderResponses(ScopedTool, AssignParams(chunks)) :
       GsResolved(response)
  \/ GsRejected
  \/ \E written \in BOOLEAN : GsWriteMeta(written)

SpecSlugs == SlugsInit /\ [][SlugsNext]_vars

(***************************************************************************)
(* Properties of the classifier.                                           *)
(***************************************************************************)
MetaIds(diffs) == [i \in 1..Len(diffs) |-> diffs[i].id]

\* C18: a chunk whose id the engine has named in no assign_chunk_metadata
\* invocation has no record in chunkMetadata and is in no tag group; as long
\* as no engine call rejected, getDiffSlugs has not rejected, every chunk
\* taken so far has been handled, the call of the next chunk is enabled, and
\* all chunks are handled when chunkMetadata is returned.
C18_UninvokedChunkUntagged ==
  bFn = "getDiffSlugs" =>
    /\ \A i \in 1..Len(chunks) :
         chunks[i].id \notin invoked =>
           /\ chunks[i].id \notin Range(MetaIds(chunkMetadata))
           /\ \A t \in DOMAIN TagToDiffsMap(chunkMetadata) :
                chunks[i].id \notin
                  Range(MetaIds(TagToDiffsMap(chunkMetadata)[t]))
    /\ "rejected" \notin Range(outcomes) =>
         /\ bPc # "raised"
         /\ Len(outcomes) = chunkIdx - 1
    /\ (bPc = "loop" /\ chunkIdx <= Len(chunks)) => ENABLED GsCallEngine
    /\ bPc = "returned" => Len(outcomes) = Len(chunks)

\* chunkMetadata was returned for MaxCalls chunks: the engine answered the
\* call of the first chunk without a tool_use block and named only the last
\* chunk in the tool round of its call
C18_Witness ==
  /\ bFn = "getDiffSlugs"
  /\ bPc = "returned"
  /\ Len(chunks) = MaxCalls
  /\ invoked = {chunks[Len(chunks)].id}
  /\ Len(rounds) >= 1

\* C19: chunkMetadata holds at most one record per chunk id, while it is
\* built and when it is returned, and no tag group built of it holds the same
\* chunk twice.
C19_WriteOncePerChunk ==
  /\ IsInjective(MetaIds(chunkMetadata))
  /\ \A t \in DOMAIN TagToDiffsMap(chunkMetadata) :
       IsInjective(MetaIds(TagToDiffsMap(chunkMetadata)[t]))

\* chunkMetadata was returned after a call in which the engine invoked
\* assign_chunk_metadata twice for the chunk of the call, with tags
C19_Witness ==
  /\ bFn = "getDiffSlugs"
  /\ bPc = "returned"
  /\ Len(chunks) >= 1
  /\ Len(rounds) = 2
  /\ \A n \in 1..2 :
       /\ rounds[n].toolCalls[1].tool_name = ScopedTool
       /\ rounds[n].toolCalls[1].parameters.chunkId = chunks[Len(chunks)].id
       /\ rounds[n].toolCalls[1].parameters.tags # <<>>

\* C20: getDiffSlugs does not reject because the engine call of a chunk
\* rejected: the chunk is skipped and the loop goes on with the next chunk.
C20_FailedChunkSkipped ==
  (bFn = "getDiffSlugs" /\ "rejected" \in Range(outcomes)) =>
    /\ bPc \in {"loop", "awaiting", "returned", "writeFailed"}
    /\ Len(outcomes) = chunkIdx - 1

(***************************************************************************)
(* orderChunksForTag (src/src/index.ts:1075-1146) with the reorder tool    *)
(* (lines 1376-1396) passed as the scoped tool of every refinement round.  *)
(***************************************************************************)
ReorderTool == "reorder"

\* let recursionLimit = 5: line 1132
RecursionLimit == 5

\* ReorderedChunks looking the ids up among the chunks of the whole run
RECURSIVE ReorderedChunksAnywhere(_, _)
ReorderedChunksAnywhere(cs, ids) ==
  IF ids = <<>> THEN <<>>
  ELSE LET all == [i \in 1..Len(AllNodeIds) |-> DiffChunk(AllNodeIds[i])]
           found == {i \in 1..Len(all) : all[i].id = Head(ids)}
       IN  (IF found = {} THEN <<>>
            ELSE <<all[CHOOSE i \in found : \A j \in found : i <= j]>>)
           \o ReorderedChunksAnywhere(cs, Tail(ids))

\* lines 1385-1393: the chunks found for the submitted ids, in that order
RECURSIVE ReorderedChunks(_, _)
ReorderedChunks(cs, ids) ==
  IF ids = <<>> THEN <<>>
  ELSE LET found == {i \in 1..Len(cs) : cs[i].id = Head(ids)}
       IN  (IF found = {} THEN <<>>
            ELSE <<cs[CHOOSE i \in found : \A j \in found : i <= j]>>)
           \o ReorderedChunks(cs, Tail(ids))

\* reorderTool(ordering).execute(params): lines 1381-1394, on the shared
\* object; the list built for a non-final submission is the return value
ReorderExecute(ord, params) ==
  IF params.done THEN [ord EXCEPT !.done = TRUE] ELSE ord

\* the shared object after the execute() invocations ran of one
\* handleToolCalls call
RECURSIVE OrderingAfter(_, _)
OrderingAfter(ord, ran) ==
  IF ran = <<>> THEN ord
  ELSE OrderingAfter(IF Head(ran).tool_name = ReorderTool
                     THEN ReorderExecute(ord, Head(ran).parameters)
                     ELSE ord,
                     Tail(ran))

\* the id sequences the engine submits: the permutations of the ids of the
\* group, a sequence that names an id outside it and leaves the others out,
\* and a sequence that repeats an id
Orders(cs) ==
  {o \in SeqsUpTo(IdsOf(cs), Len(cs)) : Len(o) = Len(cs) /\ IsInjective(o)}
    \cup {<<StaleId>>}
    \cup (IF cs = <<>> THEN {} ELSE {<<cs[1].id, cs[1].id>>})

\* arguments that pass reorderSchema (lines 1357-1368)
ReorderParams(cs) == [order : Orders(cs), done : BOOLEAN]

ReorderInit ==
  /\ SortOff
  /\ DispatchOff
  /\ BuilderClient
  /\ BuilderIdle("orderChunksForTag")

\* orderChunksForTag(llmClient, chunks, tag): lines 1080-1132
OrderChunksForTag(n) ==
  /\ bFn = "orderChunksForTag"
  /\ bPc = "idle"
  /\ chunks' = ChunksOf(n)
  /\ ordering' = [done |-> FALSE, ordering |-> chunks']
  /\ recursionLimit' = RecursionLimit
  /\ bPc' = "loop"
  /\ UNCHANGED <<errorLogs, submitted, files, mergedChunks, thrown, reorderedChunks, runs, bFn, chunkIdx,
                 depGraph, processedNodes, chunkMetadata, tags, outcomes,
                 invoked, sortVars, loopVars, dispatchVars>>

\* OcCallEngine starting a round whatever recursionLimit holds
OcCallEngineUnlimited ==
  /\ bFn = "orderChunksForTag"
  /\ bPc = "loop"
  /\ ~ordering.done
  /\ callNo <= RecursionLimit
  /\ recursionLimit' = recursionLimit - 1
  /\ StartCall(<<ReorderTool>>)
  /\ bPc' = "awaiting"
  /\ UNCHANGED <<ordering, errorLogs, submitted, files, mergedChunks, thrown, reorderedChunks, runs, bFn,
                 chunks, chunkIdx, depGraph, processedNodes, chunkMetadata,
                 tags, outcomes, invoked>>

\* the while condition of line 1134 holds and runWithTools is called: lines
\* 1134-1140
OcCallEngine ==
  /\ bFn = "orderChunksForTag"
  /\ bPc = "loop"
  /\ ~ordering.done
  /\ recursionLimit > 0
  /\ recursionLimit' = recursionLimit - 1
  /\ StartCall(<<ReorderTool>>)
  /\ bPc' = "awaiting"
  /\ UNCHANGED <<ordering, errorLogs, submitted, files, mergedChunks, thrown, reorderedChunks, runs, bFn,
                 chunks, chunkIdx, depGraph, processedNodes, chunkMetadata,
                 tags, outcomes, invoked>>

\* OcToolRound with the list resolved for the submission taking the place
\* of ordering.ordering
OcToolRoundAssigning(response, threw) ==
  /\ bFn = "orderChunksForTag"
  /\ bPc = "awaiting"
  /\ ToolRound(response, threw)
  /\ LET params == ToolCallsOf(response)[1].parameters
     IN  /\ ordering' =
              IF params.done THEN [ordering EXCEPT !.done = TRUE]
              ELSE [ordering EXCEPT
                      !.ordering = ReorderedChunks(@, params.order)]
         /\ submitted' =
              IF params.done
              THEN [submitted EXCEPT
                      !.doneIn = IF @ = 0 THEN callNo ELSE @]
              ELSE [submitted EXCEPT !.last = <<params.order>>]
  /\ UNCHANGED <<recursionLimit, errorLogs, files, mergedChunks, thrown,
                 reorderedChunks, runs, bFn, bPc, chunks, chunkIdx, depGraph,
                 processedNodes, chunkMetadata, tags, outcomes, invoked>>

\* a tool round of the call in flight; the shared object changes by the
\* execute() invocations the registry made in it
OcToolRound(response, threw) ==
  /\ bFn = "orderChunksForTag"
  /\ bPc = "awaiting"
  /\ ToolRound(response, threw)
  /\ ordering' = OrderingAfter(ordering,
                   SubSeq(executed', Len(executed) + 1, Len(executed')))
  /\ LET params == ToolCallsOf(response)[1].parameters
     IN  submitted' =
           IF params.done
           THEN [submitted EXCEPT
                   !.doneIn = IF @ = 0 THEN callNo ELSE @]
           ELSE [submitted EXCEPT !.last = <<params.order>>]
  /\ UNCHANGED <<recursionLimit, errorLogs, files, mergedChunks, thrown, reorderedChunks, runs, bFn, bPc,
                 chunks, chunkIdx, depGraph, processedNodes, chunkMetadata,
                 tags, outcomes, invoked>>

\* the call in flight resolves: line 1135, the value is dropped
OcResolved(response) ==
  /\ bFn = "orderChunksForTag"
  /\ bPc = "awaiting"
  /\ FinalResponse(response)
  /\ outcomes' = Append(outcomes, "resolved")
  /\ bPc' = "loop"
  /\ UNCHANGED <<ordering, recursionLimit, errorLogs, submitted, files,
                 mergedChunks, thrown, reorderedChunks, runs, bFn, chunks, chunkIdx, depGraph,
                 processedNodes, chunkMetadata, tags, invoked>>

\* the call in flight rejects: the await of line 1135 is in no try block
OcRejected ==
  /\ bFn = "orderChunksForTag"
  /\ bPc = "awaiting"
  /\ EngineFails
  /\ outcomes' = Append(outcomes, "rejected")
  /\ bPc' = "raised"
  /\ UNCHANGED <<ordering, recursionLimit, errorLogs, submitted, files,
                 mergedChunks, thrown, reorderedChunks, runs, bFn, chunks, chunkIdx, depGraph,
                 processedNodes, chunkMetadata, tags, invoked>>

\* the while condition of line 1134 fails, recursionLimit-- being evaluated
\* only when done is false; then lines 1142-1145
OcReturn ==
  /\ bFn = "orderChunksForTag"
  /\ bPc = "loop"
  /\ ordering.done \/ recursionLimit <= 0
  /\ recursionLimit' = IF ordering.done THEN recursionLimit
                       ELSE recursionLimit - 1
  /\ errorLogs' = IF recursionLimit' = 0
                  THEN Append(errorLogs, "Recursion limit reached, aborting")
                  ELSE errorLogs
  /\ bPc' = "returned"
  /\ UNCHANGED <<ordering, submitted, files, mergedChunks, thrown, reorderedChunks, runs, bFn, chunks,
                 chunkIdx, depGraph, processedNodes, chunkMetadata, tags,
                 outcomes, invoked, sortVars, loopVars, dispatchVars>>

ReorderNext ==
  \/ \E n \in 1..MaxGroup : OrderChunksForTag(n)
  \/ OcCallEngine
  \/ \E response \in BuilderResponses(ReorderTool, ReorderParams(chunks)) :
       \E threw \in BOOLEAN : OcToolRound(response, threw)
  \/ \E response \in BuilderResponses(ReorderTool, ReorderParams(chunks)) :
       OcResolved(response)
  \/ OcRejected
  \/ OcReturn

SpecReorder == ReorderInit /\ [][ReorderNext]_vars

\* the value returned by orderChunksForTag: line 1145
OrderReturned == ordering.ordering


(***************************************************************************)
(* Claims on orderChunksForTag, checked under SpecReorder.                 *)
(***************************************************************************)
\* C21: once the engine has reported done = true through the reorder tool in
\* the first round, no second round is started, and the order returned is
\* the order of the input group.
C21_DoneEndsRefinement ==
  (bFn = "orderChunksForTag" /\ submitted.doneIn = 1) =>
    /\ callNo = 1
    /\ bPc = "returned" => OrderReturned = chunks

\* C22: orderChunksForTag starts at most RecursionLimit rounds; as long as
\* no engine call rejected it has not raised and, between two rounds, either
\* the next round or the return is enabled; it returns after fewer rounds
\* only if the engine reported done.
C22_AtMostFiveRounds ==
  bFn = "orderChunksForTag" =>
    /\ callNo <= RecursionLimit
    /\ "rejected" \notin Range(outcomes) => bPc # "raised"
    /\ bPc = "loop" => ENABLED (OcCallEngine \/ OcReturn)
    /\ (bPc = "returned" /\ callNo < RecursionLimit) => submitted.doneIn # 0

\* orderChunksForTag returned after RecursionLimit rounds, the engine having
\* submitted a non-final reordering in the last of them and never done
C22_Witness ==
  /\ bFn = "orderChunksForTag"
  /\ bPc = "returned"
  /\ callNo = RecursionLimit
  /\ submitted.doneIn = 0
  /\ Len(rounds) >= 1
  /\ ~rounds[1].toolCalls[1].parameters.done

\* C23: the order returned by orderChunksForTag is the list of chunks
\* resolved from the last non-final id sequence the engine submitted.
C23_LastSubmissionReturned ==
  (bFn = "orderChunksForTag" /\ bPc = "returned" /\ submitted.last # <<>>) =>
    OrderReturned = ReorderedChunks(chunks, submitted.last[1])

\* C24: when orderChunksForTag has returned, the exhausted budget has been
\* logged exactly if RecursionLimit rounds were made and done is still
\* false.
C24_ExhaustionLogged ==
  (bFn = "orderChunksForTag" /\ bPc = "returned") =>
    (errorLogs # <<>> <=> (~ordering.done /\ callNo = RecursionLimit))

(***************************************************************************)
(* mergeDiffChunks (src/src/tools/diffTool.ts:40-92).  A string is a       *)
(* sequence of characters, so that concatenation, trim and the split into  *)
(* lines are computed and not assumed.                                     *)
(***************************************************************************)
NL == "\n"

\* the characters String.prototype.trim removes that occur in the inputs
WhiteSpace == {" ", NL}

RECURSIVE TrimStart(_)
TrimStart(t) ==
  IF t # <<>> /\ Head(t) \in WhiteSpace THEN TrimStart(Tail(t)) ELSE t

RECURSIVE TrimEnd(_)
TrimEnd(t) ==
  IF t # <<>> /\ t[Len(t)] \in WhiteSpace
  THEN TrimEnd(SubSeq(t, 1, Len(t) - 1))
  ELSE t

\* String.prototype.trim
Trim(t) == TrimEnd(TrimStart(t))

DigitChars == <<"0", "1", "2", "3", "4", "5", "6", "7", "8", "9">>

\* the decimal digits a template literal or + gives for a number n >= 0
RECURSIVE Digits(_)
Digits(n) ==
  IF n < 10 THEN <<DigitChars[n + 1]>>
  ELSE Digits(n \div 10) \o <<DigitChars[(n % 10) + 1]>>

RECURSIVE Concat(_)
Concat(ts) == IF ts = <<>> THEN <<>> ELSE Head(ts) \o Concat(Tail(ts))

Unknown == <<"u", "n", "k", "n", "o", "w", "n">>

\* line 48: file.to || file.from || 'unknown'
Filename(file) ==
  IF file.to # <<>> THEN file.to
  ELSE IF file.from # <<>> THEN file.from
  ELSE Unknown

\* line 57: the header of one hunk
Header(chunk) ==
  <<"@", "@", " ", "-">> \o Digits(chunk.oldStart) \o <<",">> \o
  Digits(chunk.oldLines) \o <<" ", "+">> \o Digits(chunk.newStart) \o
  <<",">> \o Digits(chunk.newLines) \o <<" ", "@", "@">>

\* lines 63-64
Prefix(change) ==
  IF change.type = "add" THEN "+"
  ELSE IF change.type = "del" THEN "-"
  ELSE " "

\* lines 55-67: what one hunk adds to mergedPatch
PatchOfChunk(chunk) ==
  Header(chunk) \o <<NL>> \o
  Concat([c \in 1..Len(chunk.changes) |->
            <<Prefix(chunk.changes[c])>> \o chunk.changes[c].content
              \o <<NL>>])

\* lines 72-80: what one hunk adds to mergedContent
ContentOfChunk(chunk) ==
  Concat([c \in 1..Len(chunk.changes) |->
            IF chunk.changes[c].type \in {"add", "normal"}
            THEN chunk.changes[c].content \o <<NL>>
            ELSE <<>>])

\* MergedChunk numbering every chunk 1
MergedChunkUncounted(file, existingCount) ==
  [id       |-> Filename(file) \o <<"-">> \o Digits(1),
   content  |-> Trim(Concat([h \in 1..Len(file.chunks) |->
                               ContentOfChunk(file.chunks[h])])),
   filename |-> Filename(file),
   patch    |-> Trim(Concat([h \in 1..Len(file.chunks) |->
                               PatchOfChunk(file.chunks[h])]))]

\* lines 83-88: the chunk pushed for a file whose filename was met
\* existingCount times before
MergedChunk(file, existingCount) ==
  [id       |-> Filename(file) \o <<"-">> \o Digits(existingCount + 1),
   content  |-> Trim(Concat([h \in 1..Len(file.chunks) |->
                               ContentOfChunk(file.chunks[h])])),
   filename |-> Filename(file),
   patch    |-> Trim(Concat([h \in 1..Len(file.chunks) |->
                               PatchOfChunk(file.chunks[h])]))]

\* lines 45-89: the for loop from file i on, filenames being the entries of
\* the Map as a set of <<filename, count>> pairs
RECURSIVE MergeFrom(_, _, _, _)
MergeFrom(fs, i, filenames, merged) ==
  IF i > Len(fs) THEN merged
  ELSE IF fs[i].chunks = <<>> THEN MergeFrom(fs, i + 1, filenames, merged)
  ELSE LET filename == Filename(fs[i])
           entry == {e \in filenames : e[1] = filename}
           existingCount == IF entry = {} THEN 0
                            ELSE (CHOOSE e \in entry : TRUE)[2]
       IN  MergeFrom(fs, i + 1,
                     (filenames \ entry) \cup
                       {<<filename, existingCount + 1>>},
                     Append(merged, MergedChunk(fs[i], existingCount)))

\* mergeDiffChunks(files): lines 40-92
MergeDiffChunks(fs) == MergeFrom(fs, 1, {}, <<>>)

\* ---- the parsed files handed to mergeDiffChunks ----
\* most File entries of one diff
MaxFiles == 2
\* most hunks of one file
MaxHunks == 2
\* most change lines of one hunk
MaxChanges == 2

\* the to and from of a File entry: a modified file, a file whose name
\* looks like an id of the first, an entry with from only, and an entry with
\* neither
FileNames ==
  {[to |-> <<"a">>,           from |-> <<"a">>],
   [to |-> <<"a", "-", "1">>, from |-> <<"a", "-", "1">>],
   [to |-> <<>>,              from |-> <<"a">>],
   [to |-> <<>>,              from |-> <<>>]}

\* change lines: an added line, a removed line, an empty context line
Changes ==
  {[type |-> "add",    content |-> <<"x">>],
   [type |-> "del",    content |-> <<"y">>],
   [type |-> "normal", content |-> <<>>]}

ChangeLists == SeqsUpTo(Changes, MaxChanges) \ {<<>>}

\* the h-th hunk of a file starts 19 lines after the one before: hunks are
\* far apart; its line counts are those of its changes
StartOf(h) == 1 + 19 * (h - 1)

HunkOf(h, changes) ==
  [oldStart |-> StartOf(h),
   oldLines |-> Cardinality({c \in 1..Len(changes) :
                               changes[c].type \in {"del", "normal"}}),
   newStart |-> StartOf(h),
   newLines |-> Cardinality({c \in 1..Len(changes) :
                               changes[c].type \in {"add", "normal"}}),
   changes  |-> changes]

\* the chunks of a File entry; none for a binary file
HunkLists ==
  {[h \in 1..Len(cl) |-> HunkOf(h, cl[h])] :
     cl \in SeqsUpTo(ChangeLists, MaxHunks)}

Files == {[to |-> n.to, from |-> n.from, chunks |-> hs] :
            n \in FileNames, hs \in HunkLists}

MergeInit ==
  /\ SortOff
  /\ LoopOff
  /\ DispatchOff
  /\ bFn = "mergeDiffChunks"
  /\ bPc = "idle"
  /\ chunks = <<>>
  /\ chunkIdx = 1
  /\ depGraph = [nodes |-> <<>>, dependencies |-> <<>>]
  /\ processedNodes = <<>>
  /\ chunkMetadata = <<>>
  /\ tags = {}
  /\ outcomes = <<>>
  /\ invoked = {}
  /\ ordering = [done |-> FALSE, ordering |-> <<>>]
  /\ recursionLimit = 0
  /\ errorLogs = <<>>
  /\ submitted = [doneIn |-> 0, last |-> <<>>]
  /\ files \in SeqsUpTo(Files, MaxFiles)
  /\ mergedChunks = <<>>
  /\ thrown = <<>>
  /\ reorderedChunks = <<>>
  /\ runs = <<>>

\* the call mergeDiffChunks(files)
MergeDiffChunksCall ==
  /\ bFn = "mergeDiffChunks"
  /\ bPc = "idle"
  /\ mergedChunks' = MergeDiffChunks(files)
  /\ bPc' = "returned"
  /\ UNCHANGED <<ordering, recursionLimit, errorLogs, submitted, files, thrown, reorderedChunks, runs, bFn,
                 chunks, chunkIdx, depGraph, processedNodes, chunkMetadata,
                 tags, outcomes, invoked, sortVars, loopVars, dispatchVars>>

MergeNext == MergeDiffChunksCall

SpecMerge == MergeInit /\ [][MergeNext]_vars

(***************************************************************************)
(* Claims on mergeDiffChunks, checked under SpecMerge.                     *)
(***************************************************************************)
HasHunks(file) == file.chunks # <<>>

\* the lines of a text: its pieces between line feeds, none for the empty
\* text
RECURSIVE SplitLines(_)
SplitLines(t) ==
  LET feeds == {i \in 1..Len(t) : t[i] = NL}
  IN  IF feeds = {} THEN <<t>>
      ELSE LET i == CHOOSE k \in feeds : \A j \in feeds : k <= j
           IN  <<SubSeq(t, 1, i - 1)>> \o
               SplitLines(SubSeq(t, i + 1, Len(t)))

Lines(t) == IF t = <<>> THEN <<>> ELSE SplitLines(t)

\* the lines the hunks of a file hold for the patch: per hunk its header,
\* then its change lines with their marks
PatchLines(file) ==
  Concat([h \in 1..Len(file.chunks) |->
            <<Header(file.chunks[h])>> \o
            [c \in 1..Len(file.chunks[h].changes) |->
               <<Prefix(file.chunks[h].changes[c])>> \o
               file.chunks[h].changes[c].content]])

IsKept(change) == change.type \in {"add", "normal"}

\* the added and unchanged lines of the hunks of a file
ContentLines(file) ==
  Concat([h \in 1..Len(file.chunks) |->
            LET kept == SelectSeq(file.chunks[h].changes, IsKept)
            IN  [c \in 1..Len(kept) |-> kept[c].content]])

\* C25: mergeDiffChunks returns as many chunks as there are distinct
\* filenames among the parsed files.
C25_OneChunkPerFilename ==
  (bFn = "mergeDiffChunks" /\ bPc = "returned") =>
    Len(mergedChunks) =
      Cardinality({Filename(files[j]) : j \in 1..Len(files)})

\* C26: the file entries that have hunks each get one chunk, in order; the
\* lines of its patch are, hunk by hunk, the header and the marked change
\* lines, and the lines of its content are the added and unchanged lines.
C26_NoLineDroppedOrDuplicated ==
  (bFn = "mergeDiffChunks" /\ bPc = "returned") =>
    LET fs == SelectSeq(files, HasHunks)
    IN  /\ Len(mergedChunks) = Len(fs)
        /\ \A k \in 1..Len(fs) :
             k <= Len(mergedChunks) =>
               /\ Lines(mergedChunks[k].patch) = PatchLines(fs[k])
               /\ Lines(mergedChunks[k].content) = ContentLines(fs[k])

\* C27: the ids of the chunks returned by one mergeDiffChunks call are
\* pairwise distinct.
C27_IdsDistinct ==
  IsInjective([k \in 1..Len(mergedChunks) |-> mergedChunks[k].id])

\* two chunks were returned, the filename of the second being the id of the
\* first
C27_Witness ==
  /\ bFn = "mergeDiffChunks"
  /\ bPc = "returned"
  /\ Len(mergedChunks) = 2
  /\ mergedChunks[2].filename = mergedChunks[1].id

\* C28: a file entry without hunks has a chunk of its filename in the
\* returned list, with no content and no patch.
C28_BinaryFileKept ==
  (bFn = "mergeDiffChunks" /\ bPc = "returned") =>
    \A j \in 1..Len(files) :
      ~HasHunks(files[j]) =>
        \E k \in 1..Len(mergedChunks) :
          /\ mergedChunks[k].filename = Filename(files[j])
          /\ mergedChunks[k].content = <<>>
          /\ mergedChunks[k].patch = <<>>

(***************************************************************************)
(* Claims on the start order of the walk of topologicalSort, checked under *)
(* SpecSort.                                                               *)
(***************************************************************************)
\* the number of nodes that name id in their dependency list
Dependents(g, id) ==
  Cardinality({k \in 1..Len(g.nodes) :
                 id \in Range(DepsOf(g, g.nodes[k].id))})

\* id is a node without dependencies that more nodes depend on than on any
\* other node
Foundational(g, id) ==
  /\ id \in Range(NodeIds(g))
  /\ DepsOf(g, id) = <<>>
  /\ \A other \in Range(NodeIds(g)) \ {id} :
       Dependents(g, id) > Dependents(g, other)

\* C29: a node without dependencies that more nodes depend on than on any
\* other node is the first element of the returned order.
C29_FoundationalFirst ==
  tsPc = "done" =>
    \A id \in Range(NodeIds(graph)) :
      Foundational(graph, id) => (order # <<>> /\ order[1].id = id)

\* C30: topologicalSort has no choice point, no two of its steps being
\* enabled in one state, so the graph fixes the run and its output; and the
\* walk takes the nodes by ascending indegree, nodes of equal indegree in
\* extraction order.
C30_Deterministic ==
  /\ ~(ENABLED TsLoop /\ ENABLED TsStart)
  /\ ~(ENABLED TsVisitDep /\ ENABLED TsStart)
  /\ ~(ENABLED TsVisitExit /\ ENABLED TsStart)
  /\ ~(ENABLED TsReturn /\ ENABLED TsStart)
  /\ ~(ENABLED TsLoop /\ ENABLED TsVisitDep)
  /\ ~(ENABLED TsLoop /\ ENABLED TsVisitExit)
  /\ ~(ENABLED TsLoop /\ ENABLED TsReturn)
  /\ ~(ENABLED TsVisitDep /\ ENABLED TsVisitExit)
  /\ ~(ENABLED TsVisitDep /\ ENABLED TsReturn)
  /\ ~(ENABLED TsVisitExit /\ ENABLED TsReturn)
  /\ tsPc \in {"roots", "done"} =>
       /\ Range(rootsFirst) = Range(NodeIds(graph))
       /\ Len(rootsFirst) = Len(graph.nodes)
       /\ \A i, j \in 1..Len(rootsFirst) :
            i < j =>
              /\ indegree[rootsFirst[i]] <= indegree[rootsFirst[j]]
              /\ indegree[rootsFirst[i]] = indegree[rootsFirst[j]] =>
                   IndexOf(NodeIds(graph), rootsFirst[i])
                     < IndexOf(NodeIds(graph), rootsFirst[j])

\* a graph has been sorted in which the node extracted first is depended
\* upon and the two nodes after it, of equal indegree, start the walk
C30_Witness ==
  /\ tsPc = "done"
  /\ Len(graph.nodes) = 3
  /\ rootsFirst = <<graph.nodes[2].id, graph.nodes[3].id, graph.nodes[1].id>>
  /\ indegree[graph.nodes[2].id] = indegree[graph.nodes[3].id]

(***************************************************************************)
(* Claims on topologicalSort with cycles and unknown ids, checked under    *)
(* SpecSort.                                                               *)
(***************************************************************************)
\* C34: in the returned order, for every recorded edge a -> b between nodes
\* such that b does not reach a along dependency edges, b stands before a,
\* whether or not the graph has cycles elsewhere.
C34_EdgesOffCyclesRespected ==
  tsPc = "done" =>
    \A e \in NodeEdges(graph) :
      ~Reaches(graph, e[2], e[1]) =>
        /\ e[1] \in Range(OrderIds)
        /\ e[2] \in Range(OrderIds)
        /\ IndexOf(OrderIds, e[2]) < IndexOf(OrderIds, e[1])

\* a graph of three nodes has been sorted in which the first two nodes lie
\* on a cycle, broken on the way, and the third depends on one of them
\* without being reached back
C34_Witness ==
  /\ tsPc = "done"
  /\ Len(graph.nodes) = 3
  /\ Reaches(graph, graph.nodes[1].id, graph.nodes[2].id)
  /\ Reaches(graph, graph.nodes[2].id, graph.nodes[1].id)
  /\ <<graph.nodes[3].id, graph.nodes[1].id>> \in NodeEdges(graph)
  /\ ~Reaches(graph, graph.nodes[1].id, graph.nodes[3].id)
  /\ warned # <<>>

\* the dependency ids of a graph that are ids of no node
UnknownIds(g) ==
  UNION {Range(g.dependencies[k]) : k \in DOMAIN g.dependencies}
    \ Range(NodeIds(g))

\* C35: topologicalSort does not raise on a graph with dependency ids that
\* name no node or with nodes without a dependencies entry; the order it
\* returns holds no unknown id and holds every node exactly once.
C35_UnknownIdsTolerated ==
  /\ tsPc # "raised"
  /\ tsPc = "done" =>
       /\ Range(OrderIds) \cap UnknownIds(graph) = {}
       /\ Len(order) = Len(graph.nodes)
       /\ \A i \in 1..Len(graph.nodes) :
            Count(OrderIds, graph.nodes[i].id) = 1

(***************************************************************************)
(* Claims on what the builders send to the engine, checked under SpecGraph *)
(* and SpecSlugs.                                                          *)
(***************************************************************************)
\* processDiffChunks, lines 1292-1296: the existingNodes of the prompt built
\* for the chunk taken, one preview per processed node
NodesPreviews ==
  [i \in 1..Len(processedNodes) |-> [id |-> processedNodes[i].id]]

\* C37: while the engine call of a chunk is in flight, the existingNodes of
\* its prompt are the chunks before it in extraction order, all of them and
\* in that order.
C37_ExistingNodesArePredecessors ==
  (bFn = "processDiffChunks" /\ bPc = "awaiting") =>
    NodesPreviews = [i \in 1..(chunkIdx - 1) |-> [id |-> chunks[i].id]]

\* getDiffSlugs, line 1206: the existingTags of the prompt built for the
\* chunk taken next
ExistingTags == tags

\* C36: the k-th runWithTools call of getDiffSlugs is the one of the k-th
\* chunk, and chunkMetadata is returned after one call per chunk; when the
\* next chunk is taken, the tags the engine assigned through
\* assign_chunk_metadata in the call of the chunk before it are among the
\* existingTags.
C36_ExistingTagsAccumulate ==
  bFn = "getDiffSlugs" =>
    /\ bPc = "awaiting" => callNo = chunkIdx
    /\ bPc = "returned" => callNo = Len(chunks)
    /\ (bPc = "loop" /\ chunkIdx > 1) =>
         \A n \in 1..Len(rounds) :
           Range(rounds[n].toolCalls[1].parameters.tags) \subseteq ExistingTags

(***************************************************************************)
(* readDiffFile (src/src/tools/diffTool.ts:18-32): the file is read,       *)
(* parsed and merged; whatever is thrown on the way is wrapped.  A message *)
(* is a sequence of pieces of text.                                        *)
(***************************************************************************)
\* most File entries of a diff file that is read
MaxReadFiles == 1

\* what fs.readFile may reject with: an Error with a message, an Error with
\* an empty message, a value that is no Error
Causes ==
  {[isError |-> TRUE,  text |-> <<"File not found">>],
   [isError |-> TRUE,  text |-> <<>>],
   [isError |-> FALSE, text |-> <<"EACCES">>]}

\* lines 27-29: error instanceof Error ? error.message : String(error)
MessageOf(cause) == cause.text

\* ReadFailure passing the message of the cause on as it is
ReadFailureUnwrapped(cause) == MessageOf(cause)

\* lines 26-30: the message of the Error thrown by the catch block
ReadFailure(cause) == <<"Failed to read diff file: ">> \o MessageOf(cause)

ReadInit ==
  /\ SortOff
  /\ LoopOff
  /\ DispatchOff
  /\ bFn = "readDiffFile"
  /\ bPc = "idle"
  /\ chunks = <<>>
  /\ chunkIdx = 1
  /\ depGraph = [nodes |-> <<>>, dependencies |-> <<>>]
  /\ processedNodes = <<>>
  /\ chunkMetadata = <<>>
  /\ tags = {}
  /\ outcomes = <<>>
  /\ invoked = {}
  /\ ordering = [done |-> FALSE, ordering |-> <<>>]
  /\ recursionLimit = 0
  /\ errorLogs = <<>>
  /\ submitted = [doneIn |-> 0, last |-> <<>>]
  /\ files \in SeqsUpTo(Files, MaxReadFiles)
  /\ mergedChunks = <<>>
  /\ thrown = <<>>
  /\ reorderedChunks = <<>>
  /\ runs = <<>>

\* fs.readFile resolves with the text of a diff that parseDiff turns into
\* files: lines 20-24
RdResolved ==
  /\ bFn = "readDiffFile"
  /\ bPc = "idle"
  /\ mergedChunks' = MergeDiffChunks(files)
  /\ bPc' = "returned"
  /\ UNCHANGED <<ordering, recursionLimit, errorLogs, submitted, files,
                 thrown, reorderedChunks, runs, bFn, chunks, chunkIdx,
                 depGraph, processedNodes, chunkMetadata, tags, outcomes,
                 invoked,
                 sortVars, loopVars, dispatchVars>>

\* fs.readFile rejects with cause, which outcomes records: lines 21 and 25-31
RdRejected(cause) ==
  /\ bFn = "readDiffFile"
  /\ bPc = "idle"
  /\ thrown' = ReadFailure(cause)
  /\ outcomes' = <<cause>>
  /\ bPc' = "raised"
  /\ UNCHANGED <<ordering, recursionLimit, errorLogs, submitted, files,
                 mergedChunks, reorderedChunks, runs, bFn, chunks, chunkIdx,
                 depGraph, processedNodes, chunkMetadata, tags, invoked,
                 sortVars, loopVars, dispatchVars>>

ReadNext ==
  \/ RdResolved
  \/ \E cause \in Causes : RdRejected(cause)

SpecRead == ReadInit /\ [][ReadNext]_vars

\* C32: when the read of the diff file fails, readDiffFile rejects with an
\* Error whose message is 'Failed to read diff file: ' followed by the
\* message of the cause, and returns no chunk list.
C32_ReadFailureWrapped ==
  (bFn = "readDiffFile" /\ outcomes # <<>>) =>
    /\ bPc = "raised"
    /\ thrown = <<"Failed to read diff file: ">> \o outcomes[1].text
    /\ mergedChunks = <<>>

\* the read of a diff file failed with an Error that has a message
C32_Witness ==
  /\ bFn = "readDiffFile"
  /\ bPc = "raised"
  /\ Len(outcomes) = 1
  /\ outcomes[1].isError
  /\ outcomes[1].text # <<>>

(***************************************************************************)
(* The stages of a run next to one another: a call of readDiffFile, of     *)
(* processDiffChunks or of getDiffSlugs.                                   *)
(***************************************************************************)
StagesInit == ReadInit \/ GraphInit \/ SlugsInit

StagesNext == ReadNext \/ GraphNext \/ SlugsNext

SpecStages == StagesInit /\ [][StagesNext]_vars

\* C33: a diff with no files gives an empty chunk list and no failure; on
\* an empty chunk list processDiffChunks returns the graph with no nodes and
\* no dependencies and getDiffSlugs returns empty metadata, and neither of
\* them makes an engine call.
C33_EmptyInputIsNoError ==
  /\ (bFn = "readDiffFile" /\ files = <<>> /\ bPc = "returned") =>
       mergedChunks = <<>>
  /\ (bFn = "readDiffFile" /\ files = <<>> /\ bPc = "raised") =>
       outcomes # <<>>
  /\ (bFn = "processDiffChunks" /\ chunks = <<>> /\ bPc # "idle") =>
       /\ bPc = "returned"
       /\ depGraph = [nodes |-> <<>>, dependencies |-> <<>>]
       /\ callNo = 0
       /\ requests = <<>>
  /\ (bFn = "getDiffSlugs" /\ chunks = <<>> /\ bPc # "idle") =>
       /\ bPc = "returned"
       /\ chunkMetadata = <<>>
       /\ callNo = 0
       /\ requests = <<>>

\* getDiffSlugs has returned for an empty chunk list
C33_Witness ==
  /\ bFn = "getDiffSlugs"
  /\ bPc = "returned"
  /\ chunks = <<>>
  /\ chunkMetadata = <<>>
  /\ callNo = 0

\* C39: the order orderChunksForTag returns holds every chunk of the group
\* it was given exactly once, whatever id sequences the engine submitted.
C39_ReturnedOrderIsPermutation ==
  (bFn = "orderChunksForTag" /\ bPc = "returned") =>
    /\ Len(OrderReturned) = Len(chunks)
    /\ \A i \in 1..Len(chunks) :
         Cardinality({j \in 1..Len(OrderReturned) :
                        OrderReturned[j] = chunks[i]}) = 1

\* orderChunksForTag has returned for a group of two chunks after the engine
\* submitted a sequence that repeats one id and leaves the other out
C39_Witness ==
  /\ bFn = "orderChunksForTag"
  /\ bPc = "returned"
  /\ Len(chunks) = 2
  /\ Len(submitted.last) = 1
  /\ submitted.last[1] = <<chunks[1].id, chunks[1].id>>

(***************************************************************************)
(* reorderTool(ordering).execute(params) on its own                        *)
(* (src/src/index.ts:1376-1396): the tool is created over the chunks of a  *)
(* group and execute is invoked with arguments that pass reorderSchema.    *)
(* reorderedChunks is <<>> while nothing is returned, and <<list>> when    *)
(* execute resolves to list.                                               *)
(***************************************************************************)
\* longest id sequence submitted
MaxOrder == 3

\* the ids submitted: ids of the group, ids of chunks of other groups, and
\* an id no chunk has
SubmittedIds ==
  {AllNodeIds[i] : i \in 1..(MaxGroup + 1)} \cup {StaleId}

ResolveInit ==
  /\ SortOff
  /\ LoopOff
  /\ DispatchOff
  /\ BuilderIdle("reorderTool")

\* const ordering = {done: false, ordering: chunks};
\* reorderTool(ordering): lines 1126-1130 and 1376-1380
RtCreate(n) ==
  /\ bFn = "reorderTool"
  /\ bPc = "idle"
  /\ chunks' = ChunksOf(n)
  /\ ordering' = [done |-> FALSE, ordering |-> chunks']
  /\ bPc' = "created"
  /\ UNCHANGED <<recursionLimit, errorLogs, submitted, files, mergedChunks,
                 thrown, reorderedChunks, runs, bFn, chunkIdx, depGraph,
                 processedNodes, chunkMetadata, tags, outcomes, invoked,
                 sortVars, loopVars, dispatchVars>>

\* execute(params): lines 1381-1394; submitted records the arguments
RtExecute(params) ==
  /\ bFn = "reorderTool"
  /\ bPc = "created"
  /\ ordering' = ReorderExecute(ordering, params)
  /\ reorderedChunks' =
       IF params.done THEN <<>>
       ELSE <<ReorderedChunks(ordering.ordering, params.order)>>
  /\ submitted' = [doneIn |-> IF params.done THEN 1 ELSE 0,
                   last |-> <<params.order>>]
  /\ bPc' = "returned"
  /\ UNCHANGED <<recursionLimit, errorLogs, files, mergedChunks, thrown,
                 runs, bFn, chunks, chunkIdx, depGraph, processedNodes,
                 chunkMetadata, tags, outcomes, invoked, sortVars, loopVars,
                 dispatchVars>>

ResolveNext ==
  \/ \E n \in 0..MaxGroup : RtCreate(n)
  \/ \E params \in [order : SeqsUpTo(SubmittedIds, MaxOrder),
                    done : BOOLEAN] : RtExecute(params)

SpecResolve == ResolveInit /\ [][ResolveNext]_vars

\* the ids of a submission that name a chunk of the group, in submitted order
RECURSIVE IdsOfGroup(_, _)
IdsOfGroup(cs, ids) ==
  IF ids = <<>> THEN <<>>
  ELSE (IF Head(ids) \in IdsOf(cs) THEN <<Head(ids)>> ELSE <<>>)
       \o IdsOfGroup(cs, Tail(ids))

\* C38: for a submission that is not final, execute resolves to the chunks of
\* the group named by the submitted ids, in submitted order; an id naming no
\* chunk of the group adds nothing and raises nothing, and every chunk of the
\* list is a chunk of the group.
C38_ResolvedAgainstGroupOnly ==
  (bFn = "reorderTool" /\ bPc = "returned" /\ submitted.doneIn = 0) =>
    /\ Len(reorderedChunks) = 1
    /\ LET kept == IdsOfGroup(chunks, submitted.last[1])
           list == reorderedChunks[1]
       IN  /\ Len(list) = Len(kept)
           /\ \A i \in 1..Len(list) :
                /\ list[i].id = kept[i]
                /\ list[i] \in Range(chunks)

\* execute has resolved for a group of two chunks and a submission of three
\* ids of which one names a chunk of the group and one names no chunk at all
C38_Witness ==
  /\ bFn = "reorderTool"
  /\ bPc = "returned"
  /\ submitted.doneIn = 0
  /\ Len(chunks) = 2
  /\ Len(submitted.last) = 1
  /\ Len(submitted.last[1]) = 3
  /\ StaleId \in Range(submitted.last[1])
  /\ chunks[2].id \in Range(submitted.last[1])
  /\ Len(reorderedChunks) = 1
  /\ Len(reorderedChunks[1]) = 1

(***************************************************************************)
(* Runs side by side.  Requests to POST /api/prompt call runWithTools on   *)
(* the client and registry built at start-up (src/src/index.ts:21-29 and   *)
(* 162-183); a run of diffOrderingTool builds a registry and a client of   *)
(* its own (lines 1511-1572) and calls getDiffSlugs with them.  A process  *)
(* gives up control at an await only: an action is what one process does   *)
(* from one await of the engine to the next.  Registries and transcripts   *)
(* are kept by the object that holds them, so that two processes holding   *)
(* the same object see each other's writes.                                *)
(***************************************************************************)
\* processes running side by side
MaxProcs == 2
\* most chunks of the diff of one run
MaxRunChunks == 2
\* most tool rounds of one runWithTools call of a process
MaxRunRounds == 1

Procs == 1..MaxProcs

RunKinds == {"prompt", "order_diff"}

\* the client built at start-up: index.ts:29
SharedClient == 0

\* the registry built at start-up: index.ts:21-24
StartupRegistry == RegisterTool(<<>>, RegisteredTool)

\* req.body.prompt of the request of process p
PromptTexts == <<"prompt 1", "prompt 2", "prompt 3", "prompt 4">>

\* the client a process calls runWithTools on: llmClient of index.ts:29 for
\* a request (line 175), tempLlmClient for a run (lines 1524-1530)
ClientOf(kind, p) == IF kind = "prompt" THEN SharedClient ELSE p

\* the registry that client was constructed with: toolHandler of
\* index.ts:21, or the run's tempToolHandler (line 1523)
RegistryKey(kind, p) == ClientOf(kind, p)

\* TranscriptKey of a transcript held by the client
TranscriptKeyOfClient(kind, p) == <<"client", ClientOf(kind, p)>>

\* const messages of llmClient.ts:50 is a local of the call, and a process
\* has one call in flight at most
TranscriptKey(kind, p) == <<"call", p>>

\* the arguments the engine invokes assign_chunk_metadata with in a run
RunParams(cs) ==
  [chunkId : IdsOf(cs), tags : {<<t>> : t \in TagNames}, priority : {"high"}]

RunsInit ==
  /\ SortOff
  /\ LoopOff
  /\ DispatchOff
  /\ bFn = "runs"
  /\ bPc = "idle"
  /\ chunks = <<>>
  /\ chunkIdx = 1
  /\ depGraph = [nodes |-> <<>>, dependencies |-> <<>>]
  /\ processedNodes = <<>>
  /\ chunkMetadata = <<>>
  /\ tags = {}
  /\ outcomes = <<>>
  /\ invoked = {}
  /\ ordering = [done |-> FALSE, ordering |-> <<>>]
  /\ recursionLimit = 0
  /\ errorLogs = <<>>
  /\ submitted = [doneIn |-> 0, last |-> <<>>]
  /\ files = <<>>
  /\ mergedChunks = <<>>
  /\ thrown = <<>>
  /\ reorderedChunks = <<>>
  /\ \E kinds \in [Procs -> RunKinds] :
       runs = [proc |-> [p \in Procs |->
                           [kind |-> kinds[p], pc |-> "idle",
                            chunks |-> <<>>, chunkIdx |-> 1, rounds |-> 0]],
               registries |-> [k \in {SharedClient} \cup Procs |->
                                 IF k = SharedClient THEN StartupRegistry
                                 ELSE <<>>],
               transcripts |-> [k \in {TranscriptKey(kinds[p], p) :
                                         p \in Procs} |-> <<>>],
               tags |-> [p \in Procs |-> {}],
               meta |-> [p \in Procs |-> <<>>],
               last |-> 0]

KindOf(p) == runs.proc[p].kind

RegistryOf(p) == runs.registries[RegistryKey(KindOf(p), p)]

TranscriptOf(p) == runs.transcripts[TranscriptKey(KindOf(p), p)]

RunsFrame ==
  UNCHANGED <<ordering, recursionLimit, errorLogs, submitted, files,
              mergedChunks, thrown, reorderedChunks, bFn, bPc, chunks,
              chunkIdx, depGraph, processedNodes, chunkMetadata, tags,
              outcomes, invoked, sortVars, loopVars, dispatchVars>>

\* the first turn of the call process p has in flight: req.body.prompt, or
\* the prompt of index.ts:1197-1210 for the chunk at hand
FirstTurn(p) ==
  [role |-> "user",
   content |-> IF KindOf(p) = "prompt"
               THEN <<TextBlock(PromptTexts[p])>>
               ELSE <<[type |-> "text",
                       text |-> runs.proc[p].chunks[runs.proc[p].chunkIdx].id,
                       existingTags |-> runs.tags[p]]>>]

\* router.post('/prompt'): index.ts:162-176, up to the first await of
\* runWithTools (llmClient.ts:50-55)
PromptRequest(p) ==
  /\ bFn = "runs"
  /\ KindOf(p) = "prompt"
  /\ runs.proc[p].pc = "idle"
  /\ runs' = [runs EXCEPT
                !.proc[p].pc = "awaiting",
                !.proc[p].rounds = 0,
                !.transcripts[TranscriptKey("prompt", p)] = <<FirstTurn(p)>>,
                !.last = p]
  /\ RunsFrame

\* diffOrderingTool up to the loop of getDiffSlugs: index.ts:1511-1530 and
\* 1148-1160; the diff read has n chunks
OrderDiffStart(p, n) ==
  /\ bFn = "runs"
  /\ KindOf(p) = "order_diff"
  /\ runs.proc[p].pc = "idle"
  /\ runs' = [runs EXCEPT
                !.proc[p].pc = "loop",
                !.proc[p].chunks = ChunksOf(n),
                !.proc[p].chunkIdx = 1,
                !.registries[RegistryKey("order_diff", p)] = <<>>,
                !.tags[p] = {},
                !.meta[p] = <<>>,
                !.last = p]
  /\ RunsFrame

\* the loop of getDiffSlugs calls runWithTools for the next chunk:
\* index.ts:1196-1217 and llmClient.ts:50-55
RunCallEngine(p) ==
  /\ bFn = "runs"
  /\ KindOf(p) = "order_diff"
  /\ runs.proc[p].pc = "loop"
  /\ runs.proc[p].chunkIdx <= Len(runs.proc[p].chunks)
  /\ runs' = [runs EXCEPT
                !.proc[p].pc = "awaiting",
                !.proc[p].rounds = 0,
                !.transcripts[TranscriptKey("order_diff", p)] =
                   <<FirstTurn(p)>>,
                !.last = p]
  /\ RunsFrame

\* the responses that ask for a tool: a request is offered the tools of the
\* start-up registry, a run the tool of getDiffSlugs
RunResponses(p) ==
  IF KindOf(p) = "prompt"
  THEN {<<ToolUseBlock(ToolUseIds[1], RegisteredTool, ValidInput)>>}
  ELSE {<<ToolUseBlock(ToolUseIds[1], ScopedTool, x)>> :
          x \in RunParams(runs.proc[p].chunks)}

\* the engine answers the call of process p with a tool_use block:
\* llmClient.ts:74-109, with the execute() invocations of the tool of
\* getDiffSlugs acting on the tags and metadata of the run
RunToolRound(p, response, threw) ==
  /\ bFn = "runs"
  /\ runs.proc[p].pc = "awaiting"
  /\ runs.proc[p].rounds < MaxRunRounds
  /\ LET toolCalls == ToolCallsOf(response)
         handled   == HandleToolCalls(RegistryOf(p), toolCalls, <<threw>>)
         turns     == TurnsOf(response, handled.results)
         st        == MetaAfter([meta |-> runs.meta[p], tags |-> runs.tags[p]],
                                runs.proc[p].chunks, handled.executed)
     IN  runs' = [runs EXCEPT
                    !.proc[p].rounds = @ + 1,
                    !.transcripts[TranscriptKey(KindOf(p), p)] = @ \o turns,
                    !.tags[p] = IF KindOf(p) = "order_diff" THEN st.tags
                                ELSE @,
                    !.meta[p] = IF KindOf(p) = "order_diff" THEN st.meta
                                ELSE @,
                    !.last = p]
  /\ RunsFrame

\* the engine answers without tool_use: runWithTools returns
\* (llmClient.ts:110-124); the request is answered (index.ts:176), the run
\* goes on to its next chunk (index.ts:1196)
RunFinal(p) ==
  /\ bFn = "runs"
  /\ runs.proc[p].pc = "awaiting"
  /\ runs' = [runs EXCEPT
                !.proc[p].pc = IF KindOf(p) = "prompt" THEN "done"
                               ELSE "loop",
                !.proc[p].chunkIdx = IF KindOf(p) = "prompt" THEN @
                                     ELSE @ + 1,
                !.last = p]
  /\ RunsFrame

\* messages.create rejects: the request is answered with status 500
\* (index.ts:177-181), the run rejects (index.ts:1566-1572)
RunRejected(p) ==
  /\ bFn = "runs"
  /\ runs.proc[p].pc = "awaiting"
  /\ runs' = [runs EXCEPT !.proc[p].pc = "failed", !.last = p]
  /\ RunsFrame

\* the loop of getDiffSlugs is over: index.ts:1222-1229 and 1532-1565.  No
\* record was pushed, so tagToDiffsMap has no key and the loop of lines
\* 1547-1555 makes no call.
OrderDiffFinish(p) ==
  /\ bFn = "runs"
  /\ KindOf(p) = "order_diff"
  /\ runs.proc[p].pc = "loop"
  /\ runs.proc[p].chunkIdx > Len(runs.proc[p].chunks)
  /\ runs.meta[p] = <<>>
  /\ runs' = [runs EXCEPT !.proc[p].pc = "done", !.last = p]
  /\ RunsFrame

RunsNext ==
  \E p \in Procs :
    \/ PromptRequest(p)
    \/ \E n \in 1..MaxRunChunks : OrderDiffStart(p, n)
    \/ RunCallEngine(p)
    \/ \E response \in RunResponses(p) :
         \E threw \in BOOLEAN : RunToolRound(p, response, threw)
    \/ RunFinal(p)
    \/ RunRejected(p)
    \/ OrderDiffFinish(p)

SpecRuns == RunsInit /\ [][RunsNext]_vars

\* what process p holds: the contents of its registry, the transcript of its
\* call, its tag set and its metadata
RunView(p) ==
  [registry |-> RegistryOf(p), transcript |-> TranscriptOf(p),
   tags |-> runs.tags[p], meta |-> runs.meta[p]]

\* C31: processes that interleave at the awaits of the engine are isolated:
\* a step of one process changes neither the registry contents, nor the
\* transcript, the tag set or the metadata of another, and the transcript of
\* the call a process has in flight begins with the prompt of that process.
C31_RunsIsolated ==
  /\ [](\A p \in Procs :
          runs.proc[p].pc = "awaiting" =>
            /\ TranscriptOf(p) # <<>>
            /\ Head(TranscriptOf(p)) = FirstTurn(p))
  /\ [][\A p \in Procs : runs'.last # p => RunView(p)' = RunView(p)]_vars

\* two runs of diffOrderingTool are awaiting the engine at once, each after a
\* tool round, one of them on its second chunk
C31_Witness ==
  /\ bFn = "runs"
  /\ KindOf(1) = "order_diff"
  /\ KindOf(2) = "order_diff"
  /\ \A p \in {1, 2} :
       /\ runs.proc[p].pc = "awaiting"
       /\ runs.proc[p].rounds = 1
  /\ runs.proc[1].chunkIdx = 2
  /\ runs.proc[2].chunkIdx = 1

====
